---- MODULE Spec2Model ----
(***************************************************************************)
(* GlobalPodcaster: the multi-agent pipeline orchestrator                  *)
(* (backend/multi_agent_mcp_client.py), the subprocess MCP client it       *)
(* drives (backend/direct_mcp_client.py) and the tool handlers of the      *)
(* feed-monitor agent it talks to (feed_monitor_mcp_server.py).            *)
(*                                                                         *)
(* One action is one awaited client operation of the orchestrator          *)
(* (connect, call_tool, disconnect) together with the synchronous code     *)
(* that follows it up to the next await.  What a worker answers, whether   *)
(* it can be spawned and whether the feed can be fetched are inputs of     *)
(* the environment, drawn with \E.  Payload fields are taken to have the   *)
(* JSON types the agents of this repository produce.                       *)
(***************************************************************************)
EXTENDS Integers, Sequences, FiniteSets, TLC

\* ----------------------------------------------------------------- bounds
MaxEpisodes == 2      \* entries of the monitored feed
MaxRuns == 2          \* pipeline runs on the singleton orchestrator
MaxOps == 4           \* operations performed on one DirectMCPClient
MaxJobs == 3          \* jobs the scheduler runs
MaxPage == 6          \* episodes on one page of a get_new_episodes answer
MaxPages == 2         \* total_pages of a get_new_episodes answer

\* ------------------------------------------------------ program constants
BatchSize == 5        \* new_episodes[:5]
Attempts == 3         \* for attempt in range(1, 4)
PerPage == 20         \* {"page": 1, "per_page": 20}
MaxPerPage == 50      \* min(per_page, 50)

Absent == 0 - 1       \* a key the result dict does not carry
Empty == 0            \* the empty string ''

Min(a, b) == IF a < b THEN a ELSE b

Take(s, n) == SubSeq(s, 1, Min(n, Len(s)))

Range(s) == {s[k] : k \in 1..Len(s)}

\* The feed's entries, in feed order; an entry is identified by its guid.
FeedEntries == [k \in 1..MaxEpisodes |-> k]

Guids == Range(FeedEntries)

\* --------------------------------------------------------- DirectMCPClient
\* process: "none" (self.process is None), "alive", "exited" (the handle is
\* kept but the worker is gone).
DirectMCPClient == [process |-> "none", initialized |-> FALSE]

ConnectOutcomes == {"spawn_fail", "init_ok", "init_noresult", "init_eof"}

\* connect(): spawn, send initialize, read one line.
\*   spawn_fail     create_subprocess_exec raised: self.process not assigned
\*   init_ok        the response carries a result
\*   init_noresult  a response without result, or a line that is not JSON
\*   init_eof       the worker closed its stdout / died during the handshake
\* orphaned: the handle that was overwritten referred to a live worker.
connect(c, out) ==
    IF out = "spawn_fail"
    THEN [client |-> c, ret |-> FALSE, orphaned |-> FALSE]
    ELSE [client |-> [process |-> IF out = "init_eof" THEN "exited" ELSE "alive",
                      initialized |-> IF out = "init_ok" THEN TRUE ELSE c.initialized],
          ret |-> (out = "init_ok"),
          orphaned |-> (c.process = "alive")]

\* What the worker side can do with one tools/call request.
\*   eof       no line (stdout closed, worker gone)     -> call_tool returns {}
\*   nojson    a line that is not JSON, or a JSON-RPC
\*             error object without "result"            -> {} / no result
\*   badshape  result.content is empty or its text is
\*             not a JSON object                        -> the caller's parse raises
\*   errpayload the tool's own error payload
\*   ok        the tool handler ran
\*   broken    writing to the dead worker raised
Responses(c) ==
    IF ~c.initialized \/ c.process = "none" THEN {"raise"}
    ELSE IF c.process = "exited" THEN {"broken", "eof"}
    ELSE {"eof", "nojson", "badshape", "errpayload", "ok"}

\* What readline gave for an answer of the worker side: no line, a line that
\* is not JSON (of the answers grouped under nojson), or a JSON message.
LineOf(resp) ==
    IF resp = "eof" THEN "eof"
    ELSE IF resp = "nojson" THEN "notjson"
    ELSE "json"

\* _read_message: None when readline returned no line (line 89), None when
\* json.loads raised on the line (the except at 90-92), else the message.
read_message(line) ==
    IF line = "eof" THEN "None"
    ELSE IF line = "notjson" THEN "None"
    ELSE "message"

\* call_tool(): raises when not initialized (or no process), else send + read.
call_tool(c, resp) ==
    IF ~c.initialized \/ c.process = "none" \/ resp \in {"raise", "broken"}
    THEN [client |-> c, outcome |-> "raise"]
    ELSE IF resp = "eof"
    THEN [client |-> [c EXCEPT !.process = "exited"], outcome |-> "empty"]
    ELSE IF resp = "nojson"
    THEN [client |-> c, outcome |-> "empty"]
    ELSE [client |-> c, outcome |-> resp]

\* list_tools(): as call_tool, with a tools/list request.
list_tools(c, resp) ==
    IF ~c.initialized \/ c.process = "none" \/ resp \in {"raise", "broken"}
    THEN [client |-> c, outcome |-> "raise"]
    ELSE IF resp = "eof"
    THEN [client |-> [c EXCEPT !.process = "exited"], outcome |-> "empty"]
    ELSE IF resp = "nojson"
    THEN [client |-> c, outcome |-> "empty"]
    ELSE [client |-> c, outcome |-> resp]

\* _send_message wrote the request to the stdin of the client's process.
Sent(c, resp) ==
    c.initialized /\ c.process # "none" /\ resp \notin {"raise", "broken"}

\* disconnect(): terminate + wait + forget the handle.  terminate() on a
\* worker that has already exited may raise ProcessLookupError (raises),
\* which leaves the handle and the initialized flag as they were.
disconnect(c, raises) ==
    IF c.process = "none" THEN [client |-> c, raised |-> FALSE]
    ELSE IF c.process = "exited" /\ raises THEN [client |-> c, raised |-> TRUE]
    ELSE [client |-> DirectMCPClient, raised |-> FALSE]

\* ------------------------------------------- feed-monitor agent (dedup store)
\* The file last_check_<feed_id>.json of the monitored feed.
\*   missing  the file does not exist
\*   json     the file holds what json.dump wrote: the guid list and the time
\*   partial  the file was truncated by open(.., 'w') and what json.dump
\*            should have written is not (all) there: not valid JSON
MissingFile == [kind |-> "missing", episodes |-> <<>>, last_check |-> 0]

PartialFile == [kind |-> "partial", episodes |-> <<>>, last_check |-> 0]

JsonFile(episodes, timestamp) ==
    [kind |-> "json", episodes |-> episodes, last_check |-> timestamp]

\* The guids a reader of the file finds in it.
GuidSet(file) == Range(file.episodes)

\* list(a_set): every element once; the order Python gives is of no
\* consequence to any reader (each one rebuilds a set), ascending here.
RECURSIVE ListOfSet(_)
ListOfSet(S) ==
    IF S = {} THEN <<>>
    ELSE LET m == CHOOSE x \in S : \A y \in S : x <= y
         IN <<m>> \o ListOfSet(S \ {m})

\* Wall-clock readings of time.time(): an earlier and a later one.
Times == {1, 2}

\* What load_last_check hands to its caller: a dict, or an exception.
Loaded(episodes, last_check) ==
    [raised |-> FALSE, episodes |-> episodes, last_check |-> last_check]

Raised == [raised |-> TRUE, episodes |-> <<>>, last_check |-> 0]

\* Variant: load_last_check without its except clause.
load_last_check_NoExcept(file, read_ok) ==
    IF file.kind = "missing" THEN Loaded(<<>>, 0)
    ELSE IF ~read_ok \/ file.kind = "partial" THEN Raised
    ELSE Loaded(file.episodes, file.last_check)

\* load_last_check: the stored dict, or the empty record when the file does
\* not exist, cannot be opened or read (IOError, ~read_ok) or is not JSON
\* (JSONDecodeError).
load_last_check(file, read_ok) ==
    IF file.kind = "missing" THEN Loaded(<<>>, 0)
    ELSE IF ~read_ok \/ file.kind = "partial" THEN Loaded(<<>>, 0)
    ELSE Loaded(file.episodes, file.last_check)

\* What a write of the record can meet.
\*   ok              the file holds the new record
\*   makedirs_fails  os.makedirs raised (outside the try): it propagates
\*   open_fails      open(.., 'w') raised IOError: swallowed, file untouched
\*   dump_fails      json.dump raised IOError (disk full) after open(.., 'w')
\*                   truncated the file: swallowed
\*   killed          the process died between open(.., 'w') and the end of
\*                   json.dump
WriteOutcomes == {"ok", "makedirs_fails", "open_fails", "dump_fails", "killed"}

save_last_check(file, episodes, timestamp, write) ==
    [file |-> IF write = "ok" THEN JsonFile(episodes, timestamp)
              ELSE IF write \in {"dump_fails", "killed"} THEN PartialFile
              ELSE file,
     raised |-> (write = "makedirs_fails"),
     returned |-> (write # "killed")]

\* Variant: the check records the guids it saw, as a poll that keeps its own
\* state would.
check_feed_for_new_episodes_SavesState(entries, feed_ok, file, read_ok) ==
    LET previous_guids == Range(load_last_check(file, read_ok).episodes)
    IN [new_episodes |->
            IF feed_ok
            THEN SelectSeq(entries, LAMBDA g : g \notin previous_guids)
            ELSE <<>>,
        file |-> IF feed_ok
                 THEN JsonFile(ListOfSet(previous_guids \cup Range(entries)), 2)
                 ELSE file]

\* Variant: the new episodes are listed from the set of new guids.
check_feed_for_new_episodes_Sorted(entries, feed_ok, file, read_ok) ==
    [new_episodes |->
         IF feed_ok
         THEN ListOfSet(Range(entries)
                          \ Range(load_last_check(file, read_ok).episodes))
         ELSE <<>>,
     file |-> file]

\* Variant: the stored record is not subtracted.
check_feed_for_new_episodes_NoDiff(entries, feed_ok, file, read_ok) ==
    [new_episodes |-> IF feed_ok THEN entries ELSE <<>>, file |-> file]

\* check_feed_for_new_episodes: the entries of the parsed feed whose guid is
\* not in the stored record; [] when the feed cannot be parsed (bozo) and
\* when anything raised.  It writes nothing: file is the record as the
\* function leaves it.
check_feed_for_new_episodes(entries, feed_ok, file, read_ok) ==
    LET last_check_data == load_last_check(file, read_ok)
        current_guids == Range(entries)
        previous_guids == Range(last_check_data.episodes)
        new_guids == current_guids \ previous_guids
    IN [new_episodes |-> IF feed_ok /\ ~last_check_data.raised
                         THEN SelectSeq(entries, LAMBDA g : g \in new_guids)
                         ELSE <<>>,
        file |-> file]

\* tool check_feeds
check_feeds(entries, feed_ok, file, read_ok) ==
    LET r == check_feed_for_new_episodes(entries, feed_ok, file, read_ok)
    IN [status |-> "success",
        new_episodes_found |-> Len(r.new_episodes),
        episodes |-> <<>>,
        file |-> r.file]

\* tool check_feed
check_feed(entries, feed_ok, file, read_ok) ==
    LET r == check_feed_for_new_episodes(entries, feed_ok, file, read_ok)
    IN [status |-> "success",
        new_episodes_found |-> Len(r.new_episodes),
        episodes |-> r.new_episodes,
        file |-> r.file]

\* tool get_feed_stats
get_feed_stats(file, read_ok) ==
    LET last_check_data == load_last_check(file, read_ok)
    IN [status |-> IF last_check_data.raised THEN "error" ELSE "success",
        episodes_tracked |-> Len(last_check_data.episodes),
        last_check |-> last_check_data.last_check,
        file |-> file]

\* Variant: the pages are counted from 0.
get_new_episodes_FromZero(entries, feed_ok, file, read_ok, page, per_page_arg) ==
    LET per_page == Min(per_page_arg, MaxPerPage)
        r == check_feed_for_new_episodes(entries, feed_ok, file, read_ok)
        all == r.new_episodes
        start_idx == page * per_page
        end_idx == start_idx + per_page
    IN [status |-> "success",
        page |-> page,
        per_page |-> per_page,
        total_episodes |-> Len(all),
        episodes |-> SubSeq(all, start_idx + 1, Min(end_idx, Len(all))),
        total_pages |-> (Len(all) + per_page - 1) \div per_page,
        file |-> r.file]

\* tool get_new_episodes
get_new_episodes(entries, feed_ok, file, read_ok, page, per_page_arg) ==
    LET per_page == Min(per_page_arg, MaxPerPage)
        r == check_feed_for_new_episodes(entries, feed_ok, file, read_ok)
        all == r.new_episodes
        start_idx == (page - 1) * per_page
        end_idx == start_idx + per_page
    IN [status |-> "success",
        page |-> page,
        per_page |-> per_page,
        total_episodes |-> Len(all),
        episodes |-> SubSeq(all, start_idx + 1, Min(end_idx, Len(all))),
        total_pages |-> (Len(all) + per_page - 1) \div per_page,
        file |-> r.file]

\* Variant: the guids are appended to the stored list.
mark_tool_Appends(file, guids, read_ok, write, current_time) ==
    [status |-> IF guids = <<>> THEN "error" ELSE "success",
     store |-> IF guids = <<>> \/ write # "ok" THEN file
               ELSE JsonFile(load_last_check(file, read_ok).episodes \o guids,
                             current_time)]

\* Variant: an empty episodes list is served like any other.
mark_tool_AcceptsEmpty(file, guids, read_ok, write, current_time) ==
    LET last_check_data == load_last_check(file, read_ok)
        current_episodes == Range(last_check_data.episodes) \cup Range(guids)
        saved == save_last_check(file, ListOfSet(current_episodes),
                                 current_time, write)
    IN [status |-> IF ~saved.returned THEN "none"
                   ELSE IF saved.raised THEN "error"
                   ELSE "success",
        store |-> saved.file]

\* tool mark_episodes_processed on a request whose episodes carry guid,
\* feed_url and feed_id (guids: their guids): the record read, the guids
\* added, the record written at current_time; an empty list is answered
\* with an error.  status "none": the handler did not return.
mark_tool(file, guids, read_ok, write, current_time) ==
    IF guids = <<>>
    THEN [status |-> "error", store |-> file]
    ELSE LET last_check_data == load_last_check(file, read_ok)
             current_episodes == Range(last_check_data.episodes) \cup Range(guids)
             saved == save_last_check(file, ListOfSet(current_episodes),
                                      current_time, write)
         IN IF last_check_data.raised
            THEN [status |-> "error", store |-> file]
            ELSE [status |-> IF ~saved.returned THEN "none"
                             ELSE IF saved.raised THEN "error"
                             ELSE "success",
                  store |-> saved.file]

\* One episode of a mark request, as far as the handler reads it: its guid
\* (Absent: the dict has no such key) and whether feed_url and feed_id are
\* there.  There is one feed, so a feed_id that is there is the feed's.
EpisodeArg(guid, has_feed_url, has_feed_id) ==
    [guid |-> guid, feed_url |-> has_feed_url, feed_id |-> has_feed_id]

\* The request the orchestrator builds from episodes the agent returned:
\* check_feed_for_new_episodes gives each of them all three fields.
Complete(guids) ==
    [k \in 1..Len(guids) |-> EpisodeArg(guids[k], TRUE, TRUE)]

\* The grouping loop: an episode without feed_id is passed over; ep["guid"]
\* of an episode that is kept and has no guid raises KeyError.
episodes_by_feed(episodes) ==
    LET kept == SelectSeq(episodes, LAMBDA ep : ep.feed_id)
    IN [raised |-> \E k \in 1..Len(kept) : kept[k].guid = Absent,
        guids |-> [k \in 1..Len(kept) |-> kept[k].guid]]

\* tool mark_episodes_processed on any request: mark_tool on the guids the
\* grouping kept; nothing to update, and success, when it kept none.
mark_episodes_processed(file, episodes, read_ok, write, current_time) ==
    LET grouped == episodes_by_feed(episodes)
    IN IF episodes # <<>> /\ grouped.raised
       THEN [status |-> "error", store |-> file]
       ELSE IF episodes # <<>> /\ grouped.guids = <<>>
       THEN [status |-> "success", store |-> file]
       ELSE mark_tool(file, grouped.guids, read_ok, write, current_time)

\* ------------------------------------------- MultiAgentDirectMCPClient state
VARIABLES
    pc,                  \* position of the running execute_full_pipeline
    runs,                \* pipeline runs started on the singleton orchestrator
    feed_monitor,        \* self.agents['feed-monitor'], kept across runs
    stage_client,        \* translation_client / tts_client of the current stage
    orphans,             \* live workers no client handle refers to any more
    store,               \* dedup record of the feed: the processed guids
    pipeline_results,    \* the run's result dict
    feed_result,         \* locals / result of execute_feed_check
    episodes_to_process, \* the batch
    i,                   \* index of the current episode in the batch
    stage_data,          \* translation_data / tts_data parsed from the answer
    step_of,             \* history: stage and guid of each entry of steps
    mark_args,           \* history: batches passed to mark_episodes_processed
    pages_fetched,       \* history: get_new_episodes requests sent this run
    store_at_start,      \* history: the dedup record when the run started
    check_feeds_answer,  \* history: what the check_feeds call of the run met
    last_check_file,     \* the agent's file last_check_<feed_id>.json
    last_call,           \* history: the last tool call served by the agent
    marked_again,        \* history: the last call was a mark that repeated
                         \* the mark served just before it
    agents,              \* keys of self.agents
    last_op,             \* history: the last operation on a DirectMCPClient
    scheduler            \* the scheduler: its flag file, counters, last job

vars == <<pc, runs, feed_monitor, stage_client, orphans, store,
          pipeline_results, feed_result, episodes_to_process, i, stage_data,
          step_of, mark_args, pages_fetched, store_at_start,
          check_feeds_answer, last_check_file, last_call, marked_again,
          agents, last_op, scheduler>>

\* One stage result, as far as the pipeline and its summary read it.
StageResult(agent, success, simulated, count) ==
    [agent |-> agent, success |-> success, simulated |-> simulated,
     new_episodes_count |-> count]

NoFeedResult ==
    [success |-> FALSE, new_episodes |-> <<>>, new_episodes_count |-> 0,
     total_pages |-> 1]

NoStageData == [success |-> FALSE, simulated |-> FALSE]

\* The result dict has no "summary" key.
NoSummary ==
    [present |-> FALSE, status |-> "none", episodes_processed |-> 0,
     agents_used |-> <<>>, episodes_summary |-> <<>>]

NewPipelineResults ==
    [success |-> FALSE, steps |-> <<>>, episodes_processed |-> 0,
     error |-> "", message |-> "", summary |-> NoSummary]

\* _create_pipeline_summary, the entry of agents_used for one of the stage
\* agents: its steps counted by step.get("simulated", False), then the
\* status from the two counts.
AgentUsed(steps, agent) ==
    LET mine == SelectSeq(steps, LAMBDA step : step.agent = agent)
        simulated_count == Len(SelectSeq(mine, LAMBDA step : step.simulated))
        real_count == Len(SelectSeq(mine, LAMBDA step : ~step.simulated))
        total_ops == simulated_count + real_count
    IN [status |-> IF total_ops > 0
                   THEN IF simulated_count = total_ops THEN "simulated_only"
                        ELSE IF real_count = total_ops THEN "real_only"
                        ELSE "mixed"
                   ELSE "not_used",
        simulated_count |-> simulated_count,
        real_count |-> real_count]

\* _create_pipeline_summary, the entry of the feed monitor: every step of
\* agent "feed-monitor" overwrites it, the Mark-Processed result last.
FeedMonitorUsed(steps) ==
    LET mine == SelectSeq(steps, LAMBDA step : step.agent = "feed-monitor")
        last == mine[Len(mine)]
    IN IF mine = <<>>
       THEN [status |-> "success", episodes_found |-> 0]
       ELSE [status |-> IF last.success THEN "success" ELSE "error",
             episodes_found |-> IF last.new_episodes_count = Absent THEN 0
                                ELSE last.new_episodes_count]

\* _create_pipeline_summary, the per-episode list: the k-th Transcribe, the
\* k-th Translate and the k-th Synthesize result, taken by position.
EpisodesSummary(results) ==
    LET transcription_steps ==
            SelectSeq(results.steps, LAMBDA step : step.agent = "transcription")
        translation_steps ==
            SelectSeq(results.steps, LAMBDA step : step.agent = "translation")
        tts_steps == SelectSeq(results.steps, LAMBDA step : step.agent = "tts")
    IN [k \in 1..Min(Len(transcription_steps), results.episodes_processed) |->
           [episode_number |-> k,
            transcription_status |->
                IF transcription_steps[k].simulated THEN "simulated" ELSE "real",
            translation_status |->
                IF k <= Len(translation_steps) /\ translation_steps[k].simulated
                THEN "simulated" ELSE "real",
            tts_status |->
                IF k <= Len(tts_steps) /\ tts_steps[k].success
                THEN "success" ELSE "failed"]]

create_pipeline_summary(results) ==
    [present |-> TRUE,
     status |-> IF results.success THEN "success" ELSE "error",
     episodes_processed |-> results.episodes_processed,
     agents_used |->
         [feed_monitor |-> FeedMonitorUsed(results.steps),
          transcription |-> AgentUsed(results.steps, "transcription"),
          translation |-> AgentUsed(results.steps, "translation"),
          tts |-> AgentUsed(results.steps, "tts")],
     episodes_summary |-> EpisodesSummary(results)]

\* Number of worker processes spawned by the orchestrator that are alive.
LiveWorkers ==
    (IF feed_monitor.process = "alive" THEN 1 ELSE 0)
    + (IF stage_client.process = "alive" THEN 1 ELSE 0)
    + orphans

\* What the agent keeps, and what is remembered of the calls it served.
agent_vars == <<last_check_file, last_call, marked_again>>

\* No tool call has been served yet.
NoCall ==
    [tool |-> "none", entries |-> <<>>, feed_ok |-> TRUE, read_ok |-> TRUE,
     guids |-> <<>>, request |-> <<>>, write |-> "ok",
     page |-> 0, per_page_arg |-> 0, per_page |-> 0, feed |-> <<>>,
     file_before |-> MissingFile,
     status |-> "none", episodes |-> <<>>, count |-> 0, last_check |-> 0]

\* No operation has been performed on the client yet.
NoOp ==
    [op |-> "none", out |-> "none", ret |-> FALSE, raised |-> FALSE,
     sent |-> FALSE, before |-> DirectMCPClient, state |-> "new",
     read |-> "none", value |-> "none", n |-> 0]

\* No job has run yet.
NoJob ==
    [job |-> "none", force |-> FALSE, flag_before |-> FALSE,
     check |-> "none", detected |-> FALSE, started |-> FALSE,
     pipeline |-> "none", returned |-> FALSE, attempts |-> <<>>, n |-> 0]

\* GlobalPodcasterScheduler.__init__, and no flag file .new_episodes_detected.
NewScheduler ==
    [flag_file |-> FALSE, dry_run |-> FALSE, pipeline_runs |-> 0,
     feed_checks |-> 0, cleanups |-> 0, errors |-> 0, last |-> NoJob]

\* The record as the orchestrator's run meets it: the guids a reader finds
\* (the runs are taken to find the file readable; the agent's calls below
\* are not).
RecordOf(guids) ==
    IF guids = {} THEN MissingFile ELSE JsonFile(ListOfSet(guids), 1)

Init ==
    /\ pc = "idle"
    /\ runs = 0
    /\ feed_monitor = DirectMCPClient
    /\ stage_client = DirectMCPClient
    /\ orphans = 0
    /\ store \in SUBSET Guids
    /\ pipeline_results = NewPipelineResults
    /\ feed_result = NoFeedResult
    /\ episodes_to_process = <<>>
    /\ i = 0
    /\ stage_data = NoStageData
    /\ step_of = <<>>
    /\ mark_args = <<>>
    /\ pages_fetched = 0
    /\ store_at_start = store
    /\ check_feeds_answer = "none"
    /\ last_check_file = MissingFile
    /\ last_call = NoCall
    /\ marked_again = FALSE
    /\ agents = {"feed-monitor"}
    /\ last_op = NoOp
    /\ scheduler = NewScheduler

\* execute_full_pipeline is entered (api_server.trigger_pipeline calls it on
\* the singleton client, one call after the other; run_operation calls it
\* once, before it closes the client and drops it).
StartPipeline ==
    /\ pc \in {"idle", "done"}
    /\ runs < MaxRuns
    /\ agents # {}
    /\ runs' = runs + 1
    /\ pc' = "feed_connect"
    /\ pipeline_results' = NewPipelineResults
    /\ feed_result' = NoFeedResult
    /\ episodes_to_process' = <<>>
    /\ i' = 0
    /\ stage_data' = NoStageData
    /\ stage_client' = DirectMCPClient
    /\ step_of' = <<>>
    /\ mark_args' = <<>>
    /\ pages_fetched' = 0
    /\ store_at_start' = store
    /\ check_feeds_answer' = "none"
    /\ UNCHANGED <<feed_monitor, orphans, store>>
    /\ UNCHANGED agent_vars
    /\ UNCHANGED <<agents, last_op, scheduler>>

\* The per-episode loop is entered with the batch (or skipped when empty).
BeginLoop(batch) ==
    /\ episodes_to_process' = batch
    /\ IF batch = <<>>
       THEN i' = 0 /\ pc' = "mark_connect"
       ELSE i' = 1 /\ pc' = "transcribe"

\* execute_full_pipeline after execute_feed_check returned fr; failed and
\* none are the two tests it makes on fr (not fr["success"], count == 0).
FeedCheckBranches(fr, failed, none) ==
    LET step == StageResult("feed-monitor", fr.success, FALSE,
                            IF fr.success THEN fr.new_episodes_count ELSE Absent)
        steps1 == Append(pipeline_results.steps, step)
        batch == Take(fr.new_episodes, BatchSize)
    IN /\ feed_result' = fr
       /\ step_of' = Append(step_of, [stage |-> "feed_check", guid |-> 0])
       /\ IF failed
          THEN /\ pipeline_results' = [pipeline_results EXCEPT !.steps = steps1,
                                        !.error = "Failed at feed check step"]
               /\ pc' = "done"
               /\ UNCHANGED <<episodes_to_process, i>>
          ELSE IF none
          THEN /\ pipeline_results' = [pipeline_results EXCEPT !.steps = steps1,
                                        !.success = TRUE,
                                        !.message = "No new episodes found to process"]
               /\ pc' = "done"
               /\ UNCHANGED <<episodes_to_process, i>>
          ELSE IF Len(batch) < BatchSize /\ fr.total_pages > 1
          THEN \* get_more_episodes(2, needed); with per_page = 20 a page of
               \* fewer than 5 episodes is the only page, so the agent never
               \* answers total_pages > 1 here.
               /\ pipeline_results' = [pipeline_results EXCEPT !.steps = steps1]
               /\ episodes_to_process' = batch
               /\ pc' = "get_more_episodes"
               /\ UNCHANGED i
          ELSE /\ pipeline_results' = [pipeline_results EXCEPT !.steps = steps1,
                                        !.episodes_processed = Len(batch)]
               /\ BeginLoop(batch)

\* Variant: the pipeline does not stop on a feed check without new episodes.
AfterFeedCheck_NoEarlyReturn(fr) ==
    FeedCheckBranches(fr, ~fr.success, FALSE)

\* Variant: the pipeline does not look at the feed check's success flag.
AfterFeedCheck_IgnoresFailure(fr) ==
    FeedCheckBranches(fr, FALSE, fr.new_episodes_count = 0)

AfterFeedCheck(fr) ==
    FeedCheckBranches(fr, ~fr.success, fr.new_episodes_count = 0)

\* execute_feed_check: connect (its return value is not looked at).
FeedConnect ==
    /\ pc = "feed_connect"
    /\ \E out \in ConnectOutcomes :
         LET r == connect(feed_monitor, out)
         IN /\ feed_monitor' = r.client
            /\ orphans' = orphans + (IF r.orphaned THEN 1 ELSE 0)
    /\ pc' = "feed_check_feeds"
    /\ UNCHANGED <<store_at_start, check_feeds_answer>>
    /\ UNCHANGED <<runs, stage_client, store, pipeline_results, feed_result,
                   episodes_to_process, i, stage_data, step_of, mark_args,
                   pages_fetched>>
    /\ UNCHANGED agent_vars
    /\ UNCHANGED <<agents, last_op, scheduler>>

\* execute_feed_check: call_tool("check_feeds") and the parse of its answer.
FeedCheckFeeds ==
    /\ pc = "feed_check_feeds"
    /\ \E resp \in Responses(feed_monitor), feed_ok \in BOOLEAN :
         LET r == call_tool(feed_monitor, resp)
             new_episodes_count ==
                 IF r.outcome = "ok"
                 THEN check_feeds(FeedEntries, feed_ok, RecordOf(store), TRUE).new_episodes_found
                 ELSE 0
         IN /\ feed_monitor' = r.client
            /\ check_feeds_answer' = resp
            /\ IF r.outcome \in {"raise", "badshape"}
               THEN pc' = "feed_except" /\ UNCHANGED feed_result
               ELSE /\ feed_result' = [feed_result EXCEPT
                                        !.new_episodes_count = new_episodes_count]
                    /\ pc' = IF new_episodes_count = 0
                             THEN "feed_disconnect_none"
                             ELSE "feed_get_new_episodes"
    /\ UNCHANGED store_at_start
    /\ UNCHANGED <<runs, stage_client, orphans, store, pipeline_results,
                   episodes_to_process, i, stage_data, step_of, mark_args,
                   pages_fetched>>
    /\ UNCHANGED agent_vars
    /\ UNCHANGED <<agents, last_op, scheduler>>

\* execute_feed_check: no new episodes, disconnect and return.
FeedDisconnectNone ==
    /\ pc = "feed_disconnect_none"
    /\ \E raises \in BOOLEAN :
         LET d == disconnect(feed_monitor, raises)
         IN /\ feed_monitor' = d.client
            /\ IF d.raised
               THEN /\ pc' = "feed_except"
                    /\ UNCHANGED <<pipeline_results, feed_result,
                                   episodes_to_process, i, step_of>>
               ELSE AfterFeedCheck([success |-> TRUE, new_episodes |-> <<>>,
                                    new_episodes_count |-> 0, total_pages |-> 1])
    /\ UNCHANGED <<store_at_start, check_feeds_answer>>
    /\ UNCHANGED <<runs, stage_client, orphans, store, stage_data, mark_args,
                   pages_fetched>>
    /\ UNCHANGED agent_vars
    /\ UNCHANGED <<agents, last_op, scheduler>>

\* execute_feed_check: call_tool("get_new_episodes", page 1) and the parse.
FeedGetNewEpisodes ==
    /\ pc = "feed_get_new_episodes"
    /\ \E resp \in Responses(feed_monitor), feed_ok \in BOOLEAN :
         LET r == call_tool(feed_monitor, resp)
             data == get_new_episodes(FeedEntries, feed_ok, RecordOf(store), TRUE, 1, PerPage)
         IN /\ feed_monitor' = r.client
            /\ pages_fetched' = pages_fetched + (IF r.outcome = "raise" THEN 0 ELSE 1)
            /\ IF r.outcome \in {"raise", "badshape"}
               THEN pc' = "feed_except" /\ UNCHANGED feed_result
               ELSE /\ feed_result' =
                         IF r.outcome = "ok"
                         THEN [feed_result EXCEPT !.new_episodes = data.episodes,
                                                  !.total_pages = data.total_pages]
                         ELSE [feed_result EXCEPT !.new_episodes = <<>>,
                                                  !.total_pages = 1]
                    /\ pc' = "feed_disconnect"
    /\ UNCHANGED <<store_at_start, check_feeds_answer>>
    /\ UNCHANGED <<runs, stage_client, orphans, store, pipeline_results,
                   episodes_to_process, i, stage_data, step_of, mark_args>>
    /\ UNCHANGED agent_vars
    /\ UNCHANGED <<agents, last_op, scheduler>>

\* execute_feed_check: disconnect and return the page.
FeedDisconnect ==
    /\ pc = "feed_disconnect"
    /\ \E raises \in BOOLEAN :
         LET d == disconnect(feed_monitor, raises)
         IN /\ feed_monitor' = d.client
            /\ IF d.raised
               THEN /\ pc' = "feed_except"
                    /\ UNCHANGED <<pipeline_results, feed_result,
                                   episodes_to_process, i, step_of>>
               ELSE AfterFeedCheck([feed_result EXCEPT !.success = TRUE])
    /\ UNCHANGED <<store_at_start, check_feeds_answer>>
    /\ UNCHANGED <<runs, stage_client, orphans, store, stage_data, mark_args,
                   pages_fetched>>
    /\ UNCHANGED agent_vars
    /\ UNCHANGED <<agents, last_op, scheduler>>

\* execute_feed_check: the except branch (disconnect, errors swallowed).
FeedExcept ==
    /\ pc = "feed_except"
    /\ \E raises \in BOOLEAN :
         feed_monitor' = disconnect(feed_monitor, raises).client
    /\ AfterFeedCheck([NoFeedResult EXCEPT !.success = FALSE])
    /\ UNCHANGED <<store_at_start, check_feeds_answer>>
    /\ UNCHANGED <<runs, stage_client, orphans, store, stage_data, mark_args,
                   pages_fetched>>
    /\ UNCHANGED agent_vars
    /\ UNCHANGED <<agents, last_op, scheduler>>

\* ------------------------------------------------ per-episode stages
\* Variant: the batch is walked from its last episode to its first.
Episode_Reversed == episodes_to_process[Len(episodes_to_process) + 1 - i]

\* for i, episode in enumerate(episodes_to_process, 1)
Episode == episodes_to_process[i]

\* Variant: the loop is left for Mark-Processed after the first episode.
NextEpisode_MarksEarly ==
    i' = i /\ pc' = "mark_connect"

\* The for loop moves to the next episode, or leaves for Mark-Processed.
NextEpisode ==
    IF i < Len(episodes_to_process)
    THEN i' = i + 1 /\ pc' = "transcribe"
    ELSE i' = i /\ pc' = "mark_connect"

\* execute_transcription: no agent is called, the result is always the
\* simulated transcript; then the translation client is constructed.
execute_transcription == StageResult("transcription", TRUE, TRUE, Absent)

Transcribe ==
    /\ pc = "transcribe"
    /\ LET transcription_result == execute_transcription
       IN /\ pipeline_results' = [pipeline_results EXCEPT
                                   !.steps = Append(@, transcription_result)]
          /\ step_of' = Append(step_of, [stage |-> "transcribe", guid |-> Episode])
          /\ IF transcription_result.success
             THEN /\ pc' = "translation_connect"
                  /\ stage_client' = DirectMCPClient
                  /\ UNCHANGED i
             ELSE NextEpisode /\ UNCHANGED stage_client
    /\ UNCHANGED <<store_at_start, check_feeds_answer>>
    /\ UNCHANGED <<runs, feed_monitor, orphans, store, feed_result,
                   episodes_to_process, stage_data, mark_args, pages_fetched>>
    /\ UNCHANGED agent_vars
    /\ UNCHANGED <<agents, last_op, scheduler>>

StageName(agent) == IF agent = "translation" THEN "translate" ELSE "synthesize"

\* Variant: Synthesize is run whatever the Translate result says.
AfterStage_Ungated(agent, result, client) ==
    /\ pipeline_results' = [pipeline_results EXCEPT !.steps = Append(@, result)]
    /\ step_of' = Append(step_of, [stage |-> StageName(agent), guid |-> Episode])
    /\ IF agent = "translation"
       THEN /\ pc' = "tts_connect"
            /\ stage_client' = DirectMCPClient
            /\ UNCHANGED i
       ELSE /\ NextEpisode
            /\ stage_client' = client

\* execute_full_pipeline after execute_translation / execute_tts returned.
\* client: the stage's client object as the stage left it.
AfterStage(agent, result, client) ==
    /\ pipeline_results' = [pipeline_results EXCEPT !.steps = Append(@, result)]
    /\ step_of' = Append(step_of, [stage |-> StageName(agent), guid |-> Episode])
    /\ IF agent = "translation" /\ result.success
       THEN /\ pc' = "tts_connect"
            /\ stage_client' = DirectMCPClient
            /\ UNCHANGED i
       ELSE /\ NextEpisode
            /\ stage_client' = client

\* execute_translation / execute_tts: connect (return value not looked at).
StageConnect(agent) ==
    /\ pc = agent \o "_connect"
    /\ \E out \in ConnectOutcomes :
         LET r == connect(stage_client, out)
         IN /\ stage_client' = r.client
            /\ orphans' = orphans + (IF r.orphaned THEN 1 ELSE 0)
    /\ pc' = agent \o "_call"
    /\ UNCHANGED <<store_at_start, check_feeds_answer>>
    /\ UNCHANGED <<runs, feed_monitor, store, pipeline_results, feed_result,
                   episodes_to_process, i, stage_data, step_of, mark_args,
                   pages_fetched>>
    /\ UNCHANGED agent_vars
    /\ UNCHANGED <<agents, last_op, scheduler>>

\* execute_translation / execute_tts: call_tool and the parse of its answer.
\* An answer without a success field reads as success False, simulated False.
StageCall(agent) ==
    /\ pc = agent \o "_call"
    /\ \E resp \in Responses(stage_client), success \in BOOLEAN, simulated \in BOOLEAN :
         LET r == call_tool(stage_client, resp)
         IN /\ stage_client' = r.client
            /\ IF r.outcome \in {"raise", "badshape"}
               THEN pc' = agent \o "_except" /\ UNCHANGED stage_data
               ELSE /\ stage_data' =
                         IF r.outcome = "ok"
                         THEN [success |-> success, simulated |-> simulated]
                         ELSE [success |-> FALSE, simulated |-> FALSE]
                    /\ pc' = agent \o "_disconnect"
    /\ UNCHANGED <<store_at_start, check_feeds_answer>>
    /\ UNCHANGED <<runs, feed_monitor, orphans, store, pipeline_results,
                   feed_result, episodes_to_process, i, step_of, mark_args,
                   pages_fetched>>
    /\ UNCHANGED agent_vars
    /\ UNCHANGED <<agents, last_op, scheduler>>

\* execute_translation / execute_tts: disconnect and return the parsed result.
StageDisconnect(agent) ==
    /\ pc = agent \o "_disconnect"
    /\ \E raises \in BOOLEAN :
         LET d == disconnect(stage_client, raises)
         IN IF d.raised
            THEN /\ pc' = agent \o "_except"
                 /\ stage_client' = d.client
                 /\ UNCHANGED <<pipeline_results, i, step_of>>
            ELSE AfterStage(agent,
                            StageResult(agent, stage_data.success,
                                        stage_data.simulated, Absent),
                            d.client)
    /\ UNCHANGED <<store_at_start, check_feeds_answer>>
    /\ UNCHANGED <<runs, feed_monitor, orphans, store, feed_result,
                   episodes_to_process, stage_data, mark_args, pages_fetched>>
    /\ UNCHANGED agent_vars
    /\ UNCHANGED <<agents, last_op, scheduler>>

\* execute_translation / execute_tts: the except branch; disconnect (errors
\* swallowed) and return the simulated fallback.
StageExcept(agent) ==
    /\ pc = agent \o "_except"
    /\ \E raises \in BOOLEAN :
         AfterStage(agent, StageResult(agent, TRUE, TRUE, Absent),
                    disconnect(stage_client, raises).client)
    /\ UNCHANGED <<store_at_start, check_feeds_answer>>
    /\ UNCHANGED <<runs, feed_monitor, orphans, store, feed_result,
                   episodes_to_process, stage_data, mark_args, pages_fetched>>
    /\ UNCHANGED agent_vars
    /\ UNCHANGED <<agents, last_op, scheduler>>

TranslationConnect == StageConnect("translation")

TranslationCall == StageCall("translation")

TranslationDisconnect == StageDisconnect("translation")

TranslationExcept == StageExcept("translation")

TtsConnect == StageConnect("tts")

TtsCall == StageCall("tts")

TtsDisconnect == StageDisconnect("tts")

TtsExcept == StageExcept("tts")

\* ------------------------------------------------------- Mark-Processed
\* mark_episodes_processed is entered with the batch: connect.
MarkConnect ==
    /\ pc = "mark_connect"
    /\ mark_args' = Append(mark_args, episodes_to_process)
    /\ \E out \in ConnectOutcomes :
         LET r == connect(feed_monitor, out)
         IN /\ feed_monitor' = r.client
            /\ orphans' = orphans + (IF r.orphaned THEN 1 ELSE 0)
    /\ pc' = "mark_call"
    /\ UNCHANGED <<store_at_start, check_feeds_answer>>
    /\ UNCHANGED <<runs, stage_client, store, pipeline_results, feed_result,
                   episodes_to_process, i, stage_data, step_of, pages_fetched>>
    /\ UNCHANGED agent_vars
    /\ UNCHANGED <<agents, last_op, scheduler>>

\* mark_episodes_processed: call_tool, parse, return (no disconnect); then
\* execute_full_pipeline appends the result, sets success, adds the summary
\* and returns.
MarkCall ==
    /\ pc = "mark_call"
    /\ \E resp \in Responses(feed_monitor), write \in WriteOutcomes \ {"killed"} :
         LET r == call_tool(feed_monitor, resp)
             answer == mark_tool(RecordOf(store), episodes_to_process, TRUE,
                                 write, 2)
             mark_result ==
                 StageResult("feed-monitor",
                             r.outcome = "ok" /\ answer.status = "success",
                             FALSE, Absent)
         IN /\ feed_monitor' = r.client
            /\ store' = IF r.outcome = "ok" THEN GuidSet(answer.store) ELSE store
            /\ pipeline_results' =
                   LET results == [pipeline_results EXCEPT
                                     !.steps = Append(@, mark_result),
                                     !.success = TRUE]
                   IN [results EXCEPT
                         !.summary = create_pipeline_summary(results)]
    /\ step_of' = Append(step_of, [stage |-> "mark", guid |-> 0])
    /\ pc' = "done"
    /\ UNCHANGED <<store_at_start, check_feeds_answer>>
    /\ UNCHANGED <<runs, stage_client, orphans, feed_result,
                   episodes_to_process, i, stage_data, mark_args, pages_fetched>>
    /\ UNCHANGED agent_vars
    /\ UNCHANGED <<agents, last_op, scheduler>>

\* ------------------------------------------------ a worker that stays silent
\* _read_message awaits stdout.readline() with no timeout: when the worker
\* stays alive and writes no line (the feed-monitor fetches its feed with
\* feedparser.parse, which sets no timeout either) the await never completes
\* and nothing in the orchestrator cancels it.  The workers leave SIGTERM at
\* its default, so the wait() of disconnect() does return.
FeedMonitorPcs ==
    {"feed_connect", "feed_check_feeds", "feed_get_new_episodes",
     "mark_connect", "mark_call"}

ConnectPcs ==
    {"feed_connect", "translation_connect", "tts_connect", "mark_connect"}

CallToolPcs ==
    {"feed_check_feeds", "feed_get_new_episodes", "translation_call",
     "tts_call", "mark_call"}

\* connect(): the worker is spawned and never answers initialize.
ConnectBlocks ==
    /\ pc \in ConnectPcs
    /\ LET c == IF pc \in FeedMonitorPcs THEN feed_monitor ELSE stage_client
           spawned == [c EXCEPT !.process = "alive"]
       IN /\ orphans' = orphans + (IF c.process = "alive" THEN 1 ELSE 0)
          /\ IF pc \in FeedMonitorPcs
             THEN feed_monitor' = spawned /\ UNCHANGED stage_client
             ELSE stage_client' = spawned /\ UNCHANGED feed_monitor
    /\ mark_args' = IF pc = "mark_connect"
                    THEN Append(mark_args, episodes_to_process)
                    ELSE mark_args
    /\ pc' = "blocked_in_connect"
    /\ UNCHANGED <<store_at_start, check_feeds_answer>>
    /\ UNCHANGED <<runs, store, pipeline_results, feed_result,
                   episodes_to_process, i, stage_data, step_of, pages_fetched>>
    /\ UNCHANGED agent_vars
    /\ UNCHANGED <<agents, last_op, scheduler>>

\* call_tool(): the request is written and the live worker never answers.
CallToolBlocks ==
    /\ pc \in CallToolPcs
    /\ LET c == IF pc \in FeedMonitorPcs THEN feed_monitor ELSE stage_client
       IN c.initialized /\ c.process = "alive"
    /\ check_feeds_answer' = IF pc = "feed_check_feeds" THEN "silent"
                             ELSE check_feeds_answer
    /\ pages_fetched' = pages_fetched
                          + (IF pc = "feed_get_new_episodes" THEN 1 ELSE 0)
    /\ pc' = "blocked_in_call_tool"
    /\ UNCHANGED store_at_start
    /\ UNCHANGED <<runs, feed_monitor, stage_client, orphans, store,
                   pipeline_results, feed_result, episodes_to_process, i,
                   stage_data, step_of, mark_args>>
    /\ UNCHANGED agent_vars
    /\ UNCHANGED <<agents, last_op, scheduler>>

\* close(), called by run_operation on its way out.  A DirectMCPClient has
\* no attribute close, so the test `agent and hasattr(agent, 'close')` fails
\* for the only agent of the map and neither disconnect() nor close() is
\* called on it; then the map is cleared.  feed_monitor stays the client
\* object that was in the map.
Close ==
    /\ pc \in {"idle", "done"}
    /\ agents # {}
    /\ agents' = {}
    /\ UNCHANGED <<pc, runs, feed_monitor, stage_client, orphans, store,
                   pipeline_results, feed_result, episodes_to_process, i,
                   stage_data, step_of, mark_args, pages_fetched,
                   store_at_start, check_feeds_answer>>
    /\ UNCHANGED agent_vars
    /\ UNCHANGED <<last_op, scheduler>>

Next ==
    \/ StartPipeline
    \/ Close
    \/ ConnectBlocks
    \/ CallToolBlocks
    \/ FeedConnect
    \/ FeedCheckFeeds
    \/ FeedDisconnectNone
    \/ FeedGetNewEpisodes
    \/ FeedDisconnect
    \/ FeedExcept
    \/ Transcribe
    \/ TranslationConnect
    \/ TranslationCall
    \/ TranslationDisconnect
    \/ TranslationExcept
    \/ TtsConnect
    \/ TtsCall
    \/ TtsDisconnect
    \/ TtsExcept
    \/ MarkConnect
    \/ MarkCall

Spec == Init /\ [][Next]_vars

\* ------------------------------------- the feed-monitor agent, call by call
\* handle_call_tool serves one tools/call at a time and none of its branches
\* awaits: a call is one step.  The feed as the fetch finds it, whether the
\* record can be read and written, and the clock are drawn per call.  store
\* follows the file: the guids a reader finds in it.
pipeline_vars ==
    <<pc, runs, feed_monitor, stage_client, orphans, pipeline_results,
      feed_result, episodes_to_process, i, stage_data, step_of, mark_args,
      pages_fetched, store_at_start, check_feeds_answer, agents>>

\* Entry lists of a parsed feed, and guid lists of a mark request: every
\* list of up to two guids, and the longer ones that name no guid twice.
FeedLists ==
    {s \in UNION {[1..n -> Guids] : n \in 0..MaxEpisodes} :
        Len(s) <= 2 \/ Cardinality(Range(s)) = Len(s)}

\* The record before the first call: none yet, or one written earlier.
InitialFiles ==
    {MissingFile} \cup {JsonFile(ListOfSet(S), 1) : S \in SUBSET Guids}

InitStore ==
    /\ pc = "idle"
    /\ runs = 0
    /\ feed_monitor = DirectMCPClient
    /\ stage_client = DirectMCPClient
    /\ orphans = 0
    /\ pipeline_results = NewPipelineResults
    /\ feed_result = NoFeedResult
    /\ episodes_to_process = <<>>
    /\ i = 0
    /\ stage_data = NoStageData
    /\ step_of = <<>>
    /\ mark_args = <<>>
    /\ pages_fetched = 0
    /\ check_feeds_answer = "none"
    /\ last_check_file \in InitialFiles
    /\ store = GuidSet(last_check_file)
    /\ store_at_start = {}
    /\ last_call = NoCall
    /\ marked_again = FALSE
    /\ agents = {"feed-monitor"}
    /\ last_op = NoOp
    /\ scheduler = NewScheduler

\* The history entry of a call that checked the feed.
Checked(tool, entries, feed_ok, read_ok, status, episodes, count) ==
    [NoCall EXCEPT !.tool = tool, !.entries = entries, !.feed_ok = feed_ok,
                   !.read_ok = read_ok, !.file_before = last_check_file,
                   !.status = status, !.episodes = episodes, !.count = count]

\* The call leaves the file as file.
Leaves(file) ==
    /\ last_check_file' = file
    /\ store' = GuidSet(file)
    /\ UNCHANGED pipeline_vars
    /\ UNCHANGED <<last_op, scheduler>>

\* The environment of one check: the feed parses to entries or is bozo; a
\* file that is there may fail to open.
FeedsMet == {[feed_ok |-> TRUE, entries |-> e] : e \in FeedLists}
                \cup {[feed_ok |-> FALSE, entries |-> <<>>]}

ReadsMet == IF last_check_file.kind = "missing" THEN {TRUE} ELSE BOOLEAN

handle_check_feeds ==
    /\ \E feed \in FeedsMet, read_ok \in ReadsMet :
         LET answer == check_feeds(feed.entries, feed.feed_ok, last_check_file, read_ok)
         IN /\ Leaves(answer.file)
            /\ last_call' = Checked("check_feeds", feed.entries, feed.feed_ok,
                                    read_ok, answer.status, answer.episodes,
                                    answer.new_episodes_found)
    /\ marked_again' = FALSE

handle_check_feed ==
    /\ \E feed \in FeedsMet, read_ok \in ReadsMet :
         LET answer == check_feed(feed.entries, feed.feed_ok, last_check_file, read_ok)
         IN /\ Leaves(answer.file)
            /\ last_call' = Checked("check_feed", feed.entries, feed.feed_ok,
                                    read_ok, answer.status, answer.episodes,
                                    answer.new_episodes_found)
    /\ marked_again' = FALSE

handle_get_feed_stats ==
    /\ \E read_ok \in ReadsMet :
         LET answer == get_feed_stats(last_check_file, read_ok)
         IN /\ Leaves(answer.file)
            /\ last_call' = [NoCall EXCEPT !.tool = "get_feed_stats",
                                           !.read_ok = read_ok,
                                           !.file_before = last_check_file,
                                           !.status = answer.status,
                                           !.count = answer.episodes_tracked,
                                           !.last_check = answer.last_check]
    /\ marked_again' = FALSE

handle_get_new_episodes ==
    /\ \E feed \in FeedsMet, read_ok \in ReadsMet :
         LET answer == get_new_episodes(feed.entries, feed.feed_ok,
                                        last_check_file, read_ok, 1, PerPage)
         IN /\ Leaves(answer.file)
            /\ last_call' = Checked("get_new_episodes", feed.entries,
                                    feed.feed_ok, read_ok, answer.status,
                                    answer.episodes, answer.total_episodes)
    /\ marked_again' = FALSE

\* The last call was a mark that read its record, wrote it and answered
\* success.
MarkedClean ==
    /\ last_call.tool = "mark_episodes_processed"
    /\ last_call.status = "success"
    /\ last_call.read_ok
    /\ last_call.write = "ok"

\* The requests served: the complete ones, and those of one or two episodes
\* (the first one the feed's first entry) in which one episode lacks one of
\* its three fields.
Incomplete(guids, k, field) ==
    [Complete(guids) EXCEPT ![k] =
        IF field = "guid" THEN EpisodeArg(Absent, TRUE, TRUE)
        ELSE IF field = "feed_url" THEN EpisodeArg(guids[k], FALSE, TRUE)
        ELSE EpisodeArg(guids[k], TRUE, FALSE)]

Requests ==
    {Complete(guids) : guids \in FeedLists}
        \cup UNION {{Incomplete(guids, k, field) :
                        k \in 1..Len(guids),
                        field \in {"guid", "feed_url", "feed_id"}} :
                    guids \in {g \in FeedLists : Len(g) \in 1..2 /\ g[1] = 1}}

\* What the write of a request can meet: every outcome for a complete
\* request, a record that can be written for the others.
WritesMet(request) ==
    IF \E guids \in FeedLists : request = Complete(guids)
    THEN WriteOutcomes ELSE {"ok"}

\* The clock is read once the record is about to be written.
handle_mark_episodes_processed ==
    /\ \E request \in Requests, read_ok \in ReadsMet :
       \E write \in WritesMet(request) :
       \E current_time \in (IF write = "ok" THEN Times ELSE {1}) :
         LET answer == mark_episodes_processed(last_check_file, request,
                                               read_ok, write, current_time)
         IN /\ Leaves(answer.store)
            /\ last_call' = [NoCall EXCEPT !.tool = "mark_episodes_processed",
                                           !.guids = episodes_by_feed(request).guids,
                                           !.request = request,
                                           !.read_ok = read_ok,
                                           !.write = write,
                                           !.status = answer.status]
            /\ marked_again' = /\ last_call.tool = "mark_episodes_processed"
                                /\ last_call.request = request
                                /\ last_call.read_ok = read_ok
                                /\ last_call.write = write

NextStore ==
    \/ handle_check_feeds
    \/ handle_check_feed
    \/ handle_get_feed_stats
    \/ handle_get_new_episodes
    \/ handle_mark_episodes_processed

SpecStore == InitStore /\ [][NextStore]_vars

\* --------------------------------- one DirectMCPClient, operation by operation
\* The client self.agents['feed-monitor'] of the singleton orchestrator is
\* operated by execute_feed_check, mark_episodes_processed and
\* check_agents_health, called in any order by the API server: any sequence
\* of connect, call_tool, list_tools and disconnect that return.  last_op
\* remembers the last one: what the worker side did (out), what the
\* operation returned or raised, whether a request was written, the client
\* before it, and the state the client's contract puts it in (new, ready
\* after a connect that returned true, failed after one that returned false,
\* disconnected after a disconnect that returned).
client_frame ==
    <<pc, runs, stage_client, store, pipeline_results, feed_result,
      episodes_to_process, i, stage_data, step_of, mark_args, pages_fetched,
      store_at_start, check_feeds_answer, agents, last_check_file, last_call,
      marked_again, scheduler>>

InitClient ==
    /\ pc = "idle"
    /\ runs = 0
    /\ feed_monitor = DirectMCPClient
    /\ stage_client = DirectMCPClient
    /\ orphans = 0
    /\ store = {}
    /\ pipeline_results = NewPipelineResults
    /\ feed_result = NoFeedResult
    /\ episodes_to_process = <<>>
    /\ i = 0
    /\ stage_data = NoStageData
    /\ step_of = <<>>
    /\ mark_args = <<>>
    /\ pages_fetched = 0
    /\ store_at_start = {}
    /\ check_feeds_answer = "none"
    /\ last_check_file = MissingFile
    /\ last_call = NoCall
    /\ marked_again = FALSE
    /\ agents = {"feed-monitor"}
    /\ last_op = NoOp
    /\ scheduler = NewScheduler

\* The operation op leaves the client as client.
Operated(op, out, client, ret, raised, sent, orphaned, state) ==
    /\ feed_monitor' = client
    /\ orphans' = orphans + (IF orphaned THEN 1 ELSE 0)
    /\ last_op' = [op |-> op, out |-> out, ret |-> ret, raised |-> raised,
                   sent |-> sent, before |-> feed_monitor, state |-> state,
                   read |-> IF op \in {"call_tool", "list_tools"} /\ sent
                            THEN read_message(LineOf(out)) ELSE "none",
                   value |-> IF op = "call_tool"
                             THEN call_tool(feed_monitor, out).outcome
                             ELSE IF op = "list_tools"
                             THEN list_tools(feed_monitor, out).outcome
                             ELSE "none",
                   n |-> last_op.n + 1]
    /\ UNCHANGED client_frame

ClientConnect ==
    /\ last_op.n < MaxOps
    /\ \E out \in ConnectOutcomes :
           LET r == connect(feed_monitor, out)
           IN Operated("connect", out, r.client, r.ret, FALSE, out # "spawn_fail",
                       r.orphaned, IF r.ret THEN "ready" ELSE "failed")

ClientCallTool ==
    /\ last_op.n < MaxOps
    /\ \E resp \in Responses(feed_monitor) :
           LET r == call_tool(feed_monitor, resp)
           IN Operated("call_tool", resp, r.client, FALSE, r.outcome = "raise",
                       Sent(feed_monitor, resp), FALSE, last_op.state)

ClientListTools ==
    /\ last_op.n < MaxOps
    /\ \E resp \in Responses(feed_monitor) :
           LET r == list_tools(feed_monitor, resp)
           IN Operated("list_tools", resp, r.client, FALSE, r.outcome = "raise",
                       Sent(feed_monitor, resp), FALSE, last_op.state)

ClientDisconnect ==
    /\ last_op.n < MaxOps
    /\ \E raises \in BOOLEAN :
           LET d == disconnect(feed_monitor, raises)
           IN Operated("disconnect", IF d.raised THEN "raises" ELSE "returns",
                       d.client, FALSE, d.raised, FALSE, FALSE,
                       IF d.raised THEN last_op.state ELSE "disconnected")

NextClient ==
    \/ ClientConnect
    \/ ClientCallTool
    \/ ClientListTools
    \/ ClientDisconnect

SpecClient == InitClient /\ [][NextClient]_vars

\* ------------------------------------------------------------ the scheduler
\* What subprocess.run can meet: exit code 0, another exit code, the
\* timeout, or an exception (the interpreter is not found).
CommandOutcomes == {"ok", "nonzero", "timeout", "exception"}

\* _run_command: nothing is run in dry-run mode; success is exit code 0.
\* failed: self.stats['errors'] was incremented.
run_command(dry_run, outcome, stdout) ==
    IF dry_run
    THEN [success |-> TRUE, dry_run |-> TRUE, stdout |-> stdout,
          error |-> "none", failed |-> FALSE]
    ELSE [success |-> (outcome = "ok"), dry_run |-> FALSE, stdout |-> stdout,
          error |-> IF outcome \in {"timeout", "exception"} THEN outcome
                    ELSE "none",
          failed |-> (outcome # "ok")]

\* The stdout of `multi_agent_mcp_client.py check`: the progress lines that
\* execute_feed_check and DirectMCPClient print (the first one before
\* anything can fail), then the result dict that run_operation prints.
CheckStdout(new_episodes_count) ==
    [progress_lines |-> TRUE, new_episodes_count |-> new_episodes_count]

\* json.loads of a whole stdout: one JSON document, or JSONDecodeError.
json_loads(text) ==
    IF text.progress_lines
    THEN [raised |-> TRUE, new_episodes_count |-> 0]
    ELSE [raised |-> FALSE, new_episodes_count |-> text.new_episodes_count]

scheduler_frame ==
    <<pc, runs, feed_monitor, stage_client, orphans, store, pipeline_results,
      feed_result, episodes_to_process, i, stage_data, step_of, mark_args,
      pages_fetched, store_at_start, check_feeds_answer, agents,
      last_check_file, last_call, marked_again, last_op>>

\* The scheduler is started, in dry-run mode or not; a flag file may be
\* there, left by the operator or by an earlier installation.
InitScheduler ==
    /\ pc = "idle"
    /\ runs = 0
    /\ feed_monitor = DirectMCPClient
    /\ stage_client = DirectMCPClient
    /\ orphans = 0
    /\ store = {}
    /\ pipeline_results = NewPipelineResults
    /\ feed_result = NoFeedResult
    /\ episodes_to_process = <<>>
    /\ i = 0
    /\ stage_data = NoStageData
    /\ step_of = <<>>
    /\ mark_args = <<>>
    /\ pages_fetched = 0
    /\ store_at_start = {}
    /\ check_feeds_answer = "none"
    /\ last_check_file = MissingFile
    /\ last_call = NoCall
    /\ marked_again = FALSE
    /\ agents = {"feed-monitor"}
    /\ last_op = NoOp
    /\ \E flag_file \in BOOLEAN, dry_run \in BOOLEAN :
          scheduler = [NewScheduler EXCEPT !.flag_file = flag_file,
                                           !.dry_run = dry_run]

\* Variant: the attempts go on after one of them succeeded.
AttemptsMade_NoEarlyReturn(results) ==
    Attempts

\* The attempts the for loop of run_feed_check makes: it returns in the
\* first that succeeds, and ends after the third.
AttemptsMade(results) ==
    LET succeeded == {k \in 1..Attempts : results[k].success}
    IN IF succeeded = {} THEN Attempts
       ELSE CHOOSE k \in succeeded : \A j \in succeeded : k <= j

\* run_feed_check: up to three attempts of the check command; after the
\* first that succeeds its stdout is parsed and the flag file is touched
\* when the count is positive.
run_feed_check ==
    /\ scheduler.last.n < MaxJobs
    /\ \E outcomes \in [1..Attempts -> CommandOutcomes],
          new_episodes_count \in 0..MaxEpisodes :
         LET results == [k \in 1..Attempts |->
                            run_command(scheduler.dry_run, outcomes[k],
                                        CheckStdout(new_episodes_count))]
             succeeded == {k \in 1..Attempts : results[k].success}
             made == AttemptsMade(results)
             output_data == json_loads(results[made].stdout)
             touched == /\ succeeded # {}
                        /\ ~results[made].dry_run
                        /\ ~output_data.raised
                        /\ output_data.new_episodes_count > 0
         IN scheduler' =
                [scheduler EXCEPT
                   !.feed_checks = @ + 1,
                   !.errors = @ + Cardinality({k \in 1..made : results[k].failed}),
                   !.flag_file = @ \/ touched,
                   !.last = [NoJob EXCEPT !.job = "run_feed_check",
                                          !.flag_before = scheduler.flag_file,
                                          !.check = IF succeeded = {} THEN "failed"
                                                    ELSE IF results[made].dry_run
                                                    THEN "dry_run"
                                                    ELSE IF output_data.raised
                                                    THEN "unparsable"
                                                    ELSE "parsed",
                                          !.detected = touched,
                                          !.returned = (succeeded # {}),
                                          !.attempts = [k \in 1..made |->
                                                           results[k].success],
                                          !.n = scheduler.last.n + 1]]
    /\ UNCHANGED scheduler_frame

\* run_full_pipeline(force): without force and without flag file the check
\* command is run first and the job ends there when its count parses to 0;
\* then the pipeline command; the flag file is removed when it succeeded.
run_full_pipeline ==
    /\ scheduler.last.n < MaxJobs
    /\ \E force \in BOOLEAN, check \in CommandOutcomes,
          new_episodes_count \in 0..MaxEpisodes, pipeline \in CommandOutcomes :
         LET checks == ~force /\ ~scheduler.flag_file
             check_result == run_command(scheduler.dry_run, check,
                                         CheckStdout(new_episodes_count))
             parses == checks /\ check_result.success /\ ~check_result.dry_run
             output_data == json_loads(check_result.stdout)
             skips == /\ parses
                      /\ ~output_data.raised
                      /\ output_data.new_episodes_count = 0
             result == run_command(scheduler.dry_run, pipeline, CheckStdout(0))
         IN scheduler' =
                [scheduler EXCEPT
                   !.errors = @ + (IF checks /\ check_result.failed THEN 1 ELSE 0)
                                + (IF ~skips /\ result.failed THEN 1 ELSE 0),
                   !.pipeline_runs = @ + (IF skips THEN 0 ELSE 1),
                   !.flag_file = @ /\ (skips \/ ~result.success),
                   !.last = [job |-> "run_full_pipeline",
                             force |-> force,
                             flag_before |-> scheduler.flag_file,
                             check |-> IF ~checks THEN "none"
                                       ELSE IF check_result.dry_run THEN "dry_run"
                                       ELSE IF ~check_result.success THEN "failed"
                                       ELSE IF output_data.raised THEN "unparsable"
                                       ELSE "parsed",
                             detected |-> \/ scheduler.flag_file
                                          \/ /\ parses
                                             /\ ~output_data.raised
                                             /\ output_data.new_episodes_count > 0,
                             started |-> ~skips /\ ~result.dry_run
                                           /\ pipeline # "exception",
                             pipeline |-> IF skips THEN "none"
                                          ELSE IF result.dry_run THEN "dry_run"
                                          ELSE pipeline,
                             returned |-> skips \/ result.success,
                             attempts |-> <<>>,
                             n |-> scheduler.last.n + 1]]
    /\ UNCHANGED scheduler_frame

\* run_cleanup: the cleanup script.
run_cleanup ==
    /\ scheduler.last.n < MaxJobs
    /\ \E outcome \in CommandOutcomes :
         LET result == run_command(scheduler.dry_run, outcome, CheckStdout(0))
         IN scheduler' =
                [scheduler EXCEPT
                   !.cleanups = @ + 1,
                   !.errors = @ + (IF result.failed THEN 1 ELSE 0),
                   !.last = [NoJob EXCEPT !.job = "run_cleanup",
                                          !.flag_before = scheduler.flag_file,
                                          !.returned = result.success,
                                          !.n = scheduler.last.n + 1]]
    /\ UNCHANGED scheduler_frame

NextScheduler ==
    \/ run_feed_check
    \/ run_full_pipeline
    \/ run_cleanup

SpecScheduler == InitScheduler /\ [][NextScheduler]_vars

\* ------------------------------------------------- the batch of one run
\* execute_full_pipeline between the return of execute_feed_check and the
\* per-episode loop (lines 396-407), with get_more_episodes.  The first page
\* is what the orchestrator parsed from the answer to get_new_episodes
\* (page 1, per_page 20): its episodes and its total_pages, each as the
\* worker reported it; the count is what check_feeds answered before.
Page(first, n) == [k \in 1..n |-> first + k - 1]

FirstPages ==
    {[success |-> TRUE, new_episodes |-> Page(1, n),
      new_episodes_count |-> count, total_pages |-> total_pages] :
        n \in 0..MaxPage, count \in 1..MaxPage, total_pages \in 0..MaxPages}

batch_frame ==
    <<runs, stage_client, orphans, store, i, stage_data, step_of, mark_args,
      store_at_start, check_feeds_answer, agents, last_check_file, last_call,
      marked_again, scheduler>>

InitBatch ==
    /\ pc = "idle"
    /\ runs = 0
    /\ feed_monitor = DirectMCPClient
    /\ stage_client = DirectMCPClient
    /\ orphans = 0
    /\ store = {}
    /\ pipeline_results = NewPipelineResults
    /\ feed_result = NoFeedResult
    /\ episodes_to_process = <<>>
    /\ i = 0
    /\ stage_data = NoStageData
    /\ step_of = <<>>
    /\ mark_args = <<>>
    /\ pages_fetched = 0
    /\ store_at_start = {}
    /\ check_feeds_answer = "none"
    /\ last_check_file = MissingFile
    /\ last_call = NoCall
    /\ marked_again = FALSE
    /\ agents = {"feed-monitor"}
    /\ last_op = NoOp
    /\ scheduler = NewScheduler

\* execute_feed_check returned a first page: it sent one get_new_episodes
\* request and then disconnected the feed-monitor client (lines 127-149).
FeedCheckReturns ==
    /\ pc = "idle"
    /\ \E fr \in FirstPages :
         /\ feed_result' = fr
         /\ pipeline_results' =
                [pipeline_results EXCEPT
                   !.steps = <<StageResult("feed-monitor", TRUE, FALSE,
                                           fr.new_episodes_count)>>]
    /\ feed_monitor' = disconnect(feed_monitor, FALSE).client
    /\ pages_fetched' = 1
    /\ pc' = "select_batch"
    /\ UNCHANGED <<episodes_to_process, last_op>>
    /\ UNCHANGED batch_frame

\* Variant: a further page is asked for whenever the first one is short.
NeedsMore_IgnoresTotalPages(batch, fr) ==
    Len(batch) < BatchSize

\* len(episodes_to_process) < 5 and feed_result.get("total_pages", 1) > 1
NeedsMore(batch, fr) ==
    Len(batch) < BatchSize /\ fr.total_pages > 1

\* episodes_to_process = new_episodes[:5], and the test for a further page.
SelectBatch ==
    /\ pc = "select_batch"
    /\ LET batch == Take(feed_result.new_episodes, BatchSize)
       IN /\ episodes_to_process' = batch
          /\ IF NeedsMore(batch, feed_result)
             THEN pc' = "get_more_episodes" /\ UNCHANGED pipeline_results
             ELSE /\ pc' = "batch_ready"
                  /\ pipeline_results' =
                         [pipeline_results EXCEPT !.episodes_processed = Len(batch)]
    /\ UNCHANGED <<feed_monitor, feed_result, pages_fetched, last_op>>
    /\ UNCHANGED batch_frame

\* get_more_episodes(2, needed) and episodes_to_process.extend(more[:needed]):
\* call_tool on self.agents['feed-monitor'] as it is, the parse of the
\* answer, and [] from the except branch.
get_more_episodes ==
    /\ pc = "get_more_episodes"
    /\ \E resp \in Responses(feed_monitor), n \in 0..MaxPage :
         LET needed == BatchSize - Len(episodes_to_process)
             r == call_tool(feed_monitor, resp)
             more_episodes ==
                 IF r.outcome = "ok"
                 THEN Page(Len(feed_result.new_episodes) + 1, Min(n, needed))
                 ELSE <<>>
             batch == episodes_to_process \o Take(more_episodes, needed)
         IN /\ feed_monitor' = r.client
            /\ pages_fetched' = pages_fetched
                                  + (IF Sent(feed_monitor, resp) THEN 1 ELSE 0)
            /\ last_op' = [NoOp EXCEPT !.op = "call_tool", !.out = resp,
                                       !.raised = (r.outcome \in {"raise", "badshape"}),
                                       !.sent = Sent(feed_monitor, resp),
                                       !.before = feed_monitor,
                                       !.n = 1]
            /\ episodes_to_process' = batch
            /\ pipeline_results' =
                   [pipeline_results EXCEPT !.episodes_processed = Len(batch)]
    /\ pc' = "batch_ready"
    /\ UNCHANGED feed_result
    /\ UNCHANGED batch_frame

NextBatch ==
    \/ FeedCheckReturns
    \/ SelectBatch
    \/ get_more_episodes

SpecBatch == InitBatch /\ [][NextBatch]_vars

\* ------------------------------------------------- the guid of a feed entry
\* An entry as feedparser hands it over: its id (the feed's guid / id
\* element) and its link, each absent, empty or a value.  feedparser maps
\* the key 'guid' to 'id'.
RawEntries(k) ==
    {[id |-> id, link |-> link] :
        id \in {Absent, Empty, k}, link \in {Absent, Empty, MaxEpisodes + k}}

RawFeeds ==
    UNION {{feed \in [1..n -> UNION {RawEntries(k) : k \in 1..n}] :
               \A k \in 1..n : feed[k] \in RawEntries(k)} :
           n \in 0..MaxEpisodes}

\* dict.get(key, default): the default only when the key is absent.
Get(entry, key, default) ==
    IF entry[key] = Absent THEN default ELSE entry[key]

\* a or b: b when a is None or empty.
Or(a, b) == IF a \in {Absent, Empty} THEN b ELSE a

\* feed_monitor_mcp_server.py: guid = entry.get('id', entry.get('link', ''))
entry_guid(entry) ==
    Get(entry, "id", Get(entry, "link", Empty))

\* feed_utils.py: entry.get('guid') or entry.get('id') or entry.get('link')
feed_utils_guid(entry) ==
    Or(Or(entry.id, entry.id), entry.link)

\* The guids of current_episodes: the entries with `if guid:`, in feed order.
current_episodes(feed) ==
    SelectSeq([k \in 1..Len(feed) |-> entry_guid(feed[k])],
              LAMBDA guid : guid # Empty)

\* The same loop in feed_utils.py, with `if not guid: continue`.
feed_utils_entries(feed) ==
    SelectSeq([k \in 1..Len(feed) |-> feed_utils_guid(feed[k])],
              LAMBDA guid : guid \notin {Absent, Empty})

entries_frame ==
    <<pc, runs, feed_monitor, stage_client, orphans, pipeline_results,
      feed_result, episodes_to_process, i, stage_data, step_of, mark_args,
      pages_fetched, store_at_start, check_feeds_answer, agents,
      marked_again, last_op, scheduler, store, last_check_file>>

InitEntries ==
    /\ pc = "idle"
    /\ runs = 0
    /\ feed_monitor = DirectMCPClient
    /\ stage_client = DirectMCPClient
    /\ orphans = 0
    /\ last_check_file \in {MissingFile, JsonFile(<<1>>, 1)}
    /\ store = GuidSet(last_check_file)
    /\ pipeline_results = NewPipelineResults
    /\ feed_result = NoFeedResult
    /\ episodes_to_process = <<>>
    /\ i = 0
    /\ stage_data = NoStageData
    /\ step_of = <<>>
    /\ mark_args = <<>>
    /\ pages_fetched = 0
    /\ store_at_start = {}
    /\ check_feeds_answer = "none"
    /\ last_call = NoCall
    /\ marked_again = FALSE
    /\ agents = {"feed-monitor"}
    /\ last_op = NoOp
    /\ scheduler = NewScheduler

\* check_feed_for_new_episodes(feed_url) of the agent on a parsed feed.
CheckFeedEntries ==
    /\ \E feed \in RawFeeds :
         LET entries == current_episodes(feed)
             answer == check_feed_for_new_episodes(entries, TRUE,
                                                   last_check_file, TRUE)
         IN last_call' =
                [Checked("check_feed", entries, TRUE, TRUE, "success",
                         answer.new_episodes, Len(answer.new_episodes))
                   EXCEPT !.feed = feed]
    /\ UNCHANGED entries_frame

\* check_feed_for_new_episodes(db, feed_url) of feed_utils.py, the
\* processed_episodes collection holding the guids of the record.
FeedUtilsCheckFeed ==
    /\ \E feed \in RawFeeds :
         LET entries == feed_utils_entries(feed)
             new_episodes == SelectSeq(entries, LAMBDA guid : guid \notin store)
         IN last_call' =
                [Checked("feed_utils", entries, TRUE, TRUE, "success",
                         new_episodes, Len(new_episodes))
                   EXCEPT !.feed = feed]
    /\ UNCHANGED entries_frame

NextEntries ==
    \/ CheckFeedEntries
    \/ FeedUtilsCheckFeed

SpecEntries == InitEntries /\ [][NextEntries]_vars

\* ------------------------------------------- paging through get_new_episodes
\* A caller asks the agent for page 1, 2, ... of the new episodes with one
\* per_page, up to the page after the last, while the feed and the record
\* stay as they are.
PageSizes == (1..MaxPage) \cup {MaxPerPage, MaxPerPage + 1}

pages_frame ==
    <<pc, runs, feed_monitor, stage_client, orphans, pipeline_results,
      episodes_to_process, i, stage_data, step_of, mark_args, store_at_start,
      check_feeds_answer, agents, marked_again, last_op, scheduler>>

InitPages ==
    /\ pc = "idle"
    /\ runs = 0
    /\ feed_monitor = DirectMCPClient
    /\ stage_client = DirectMCPClient
    /\ orphans = 0
    /\ last_check_file \in {MissingFile, JsonFile(<<1>>, 1)}
    /\ store = GuidSet(last_check_file)
    /\ pipeline_results = NewPipelineResults
    /\ feed_result = NoFeedResult
    /\ episodes_to_process = <<>>
    /\ i = 0
    /\ stage_data = NoStageData
    /\ step_of = <<>>
    /\ mark_args = <<>>
    /\ pages_fetched = 0
    /\ store_at_start = {}
    /\ check_feeds_answer = "none"
    /\ last_call = NoCall
    /\ marked_again = FALSE
    /\ agents = {"feed-monitor"}
    /\ last_op = NoOp
    /\ scheduler = NewScheduler

\* tools/call get_new_episodes {"page": pages_fetched + 1, "per_page": ...};
\* the caller appends the page to what it has.
RequestPage ==
    /\ pages_fetched <= feed_result.total_pages
    /\ \E n \in 0..MaxPage, per_page_arg \in PageSizes :
         /\ pages_fetched > 0 =>
               /\ last_call.entries = Page(1, n)
               /\ last_call.per_page_arg = per_page_arg
         /\ LET answer == get_new_episodes(Page(1, n), TRUE, last_check_file,
                                           TRUE, pages_fetched + 1, per_page_arg)
            IN /\ last_check_file' = answer.file
               /\ store' = GuidSet(answer.file)
               /\ last_call' =
                      [Checked("get_new_episodes", Page(1, n), TRUE, TRUE,
                               answer.status, answer.episodes,
                               answer.total_episodes)
                         EXCEPT !.page = answer.page,
                                !.per_page_arg = per_page_arg,
                                !.per_page = answer.per_page]
               /\ feed_result' =
                      [success |-> TRUE,
                       new_episodes |-> feed_result.new_episodes \o answer.episodes,
                       new_episodes_count |-> answer.total_episodes,
                       total_pages |-> answer.total_pages]
    /\ pages_fetched' = pages_fetched + 1
    /\ UNCHANGED pages_frame

NextPages == RequestPage

SpecPages == InitPages /\ [][NextPages]_vars

\* ------------------------------------------------- the summary of one run
\* Line 460 of execute_full_pipeline, reached with the result dict of a run
\* that went through its batch and the Mark-Processed call.
\* The results a translation or tts stage can return: what the worker's
\* answer carried, False / False for an answer without fields, and the
\* simulated fallback.
StageOutcomes == {[success |-> success, simulated |-> simulated] :
                     success \in BOOLEAN, simulated \in BOOLEAN}

\* The steps one episode of the batch adds: its Transcribe result, its
\* Translate result and, when that one succeeded, its Synthesize result.
EpisodeSteps ==
    {<<execute_transcription,
       StageResult("translation", t.success, t.simulated, Absent)>> :
         t \in {o \in StageOutcomes : ~o.success}}
    \cup
    {<<execute_transcription,
       StageResult("translation", t.success, t.simulated, Absent),
       StageResult("tts", v.success, v.simulated, Absent)>> :
         t \in {o \in StageOutcomes : o.success}, v \in StageOutcomes}

RECURSIVE Flatten(_)
Flatten(seqs) ==
    IF seqs = <<>> THEN <<>> ELSE Head(seqs) \o Flatten(Tail(seqs))

\* The result dicts that reach line 460.
CompletedResults ==
    UNION {{[NewPipelineResults EXCEPT
               !.success = TRUE,
               !.episodes_processed = n,
               !.steps = <<StageResult("feed-monitor", TRUE, FALSE,
                                       IF n = 0 THEN 1 ELSE n)>>
                         \o Flatten(episodes)
                         \o <<StageResult("feed-monitor", marked, FALSE, Absent)>>] :
              episodes \in [1..n -> EpisodeSteps], marked \in BOOLEAN} :
           n \in 0..MaxEpisodes}

\* Variant: the summary is built by taking the steps out of the result.
Summarized_ConsumesSteps(results) ==
    [results EXCEPT !.steps = <<>>,
                    !.summary = create_pipeline_summary(results)]

\* pipeline_results["summary"] = self._create_pipeline_summary(pipeline_results):
\* the dict as the call leaves it, with the summary stored in it.
Summarized(results) ==
    [results EXCEPT !.summary = create_pipeline_summary(results)]

InitSummary ==
    /\ pc = "line_460"
    /\ runs = 1
    /\ feed_monitor \in {DirectMCPClient,
                          [process |-> "alive", initialized |-> TRUE]}
    /\ stage_client = DirectMCPClient
    /\ orphans = 0
    /\ store = {}
    /\ pipeline_results \in CompletedResults
    /\ feed_result = NoFeedResult
    /\ episodes_to_process = <<>>
    /\ i = 0
    /\ stage_data = NoStageData
    /\ step_of = <<>>
    /\ mark_args = <<>>
    /\ pages_fetched = 0
    /\ store_at_start = {}
    /\ check_feeds_answer = "none"
    /\ last_check_file = MissingFile
    /\ last_call = NoCall
    /\ marked_again = FALSE
    /\ agents = {"feed-monitor"}
    /\ last_op = NoOp
    /\ scheduler = NewScheduler

\* _create_pipeline_summary is called on the result, and once more on the
\* result it left.
Summarize ==
    /\ pc \in {"line_460", "summarized"}
    /\ pipeline_results' = Summarized(pipeline_results)
    /\ pc' = IF pc = "line_460" THEN "summarized" ELSE "summarized_again"
    /\ UNCHANGED <<runs, feed_monitor, stage_client, orphans, store,
                   feed_result, episodes_to_process, i, stage_data, step_of,
                   mark_args, pages_fetched, store_at_start,
                   check_feeds_answer, last_check_file, last_call,
                   marked_again, agents, last_op, scheduler>>

NextSummary == Summarize

SpecSummary == InitSummary /\ [][NextSummary]_vars

\* ------------------------------------------------------------ properties
Steps == pipeline_results.steps

StepIndexes == 1..Len(step_of)

HasStep(stage, g) ==
    \E k \in StepIndexes : step_of[k] = [stage |-> stage, guid |-> g]

Succeeded(stage, g) ==
    \E k \in StepIndexes :
        step_of[k] = [stage |-> stage, guid |-> g] /\ Steps[k].success

Failed(stage, g) ==
    \E k \in StepIndexes :
        step_of[k] = [stage |-> stage, guid |-> g] /\ ~Steps[k].success

MarkSteps == {k \in StepIndexes : step_of[k].stage = "mark"}

FeedChecked == Len(step_of) >= 1

Batch == Range(episodes_to_process)

\* Every entry of steps has its history entry.
HistoryAligned == Len(step_of) = Len(Steps)

\* The second-page request of execute_full_pipeline is never reached.
NoSecondPage == pc # "get_more_episodes"

\* C1: every episode passed to mark_episodes_processed has a Transcribe, a
\* Translate and a Synthesize result of the run, each with success = true;
\* an episode whose Translate failed is not in the Mark-Processed call.
C1_MarkedOnlyIfCompleted ==
    \A k \in 1..Len(mark_args) : \A g \in Range(mark_args[k]) :
        /\ Succeeded("transcribe", g)
        /\ Succeeded("translate", g)
        /\ Succeeded("synthesize", g)

\* An episode's stages have been attempted: Transcribe ran, Translate ran if
\* Transcribe succeeded, Synthesize ran if Translate succeeded.
Attempted(g) ==
    /\ HasStep("transcribe", g)
    /\ Succeeded("transcribe", g) => HasStep("translate", g)
    /\ Succeeded("translate", g) => HasStep("synthesize", g)

\* C2: in a run Mark-Processed is invoked at most once, with the batch, only
\* when the stages of every episode of the batch have been attempted, and its
\* result is the last entry of steps.
C2_MarkOnceAfterAllEpisodes ==
    /\ Len(mark_args) <= 1
    /\ Cardinality(MarkSteps) <= 1
    /\ MarkSteps # {} => mark_args # <<>>
    /\ mark_args # <<>> =>
          /\ mark_args[1] = episodes_to_process
          /\ \A g \in Batch : Attempted(g)
    /\ \A k \in MarkSteps : k = Len(step_of)

C2_Witness ==
    /\ pc = "done"
    /\ MarkSteps # {}
    /\ Len(episodes_to_process) >= 2

\* C3: a Translate result is preceded by a Transcribe result of the same
\* episode with success = true, and a Synthesize result by a Translate result
\* of the same episode with success = true.
C3_StagesGated ==
    \A k \in StepIndexes :
        /\ step_of[k].stage = "translate" =>
              \E j \in 1..(k - 1) :
                  /\ step_of[j] = [stage |-> "transcribe", guid |-> step_of[k].guid]
                  /\ Steps[j].success
        /\ step_of[k].stage = "synthesize" =>
              \E j \in 1..(k - 1) :
                  /\ step_of[j] = [stage |-> "translate", guid |-> step_of[k].guid]
                  /\ Steps[j].success

C3_Witness ==
    /\ pc = "done"
    /\ \E g \in Batch, h \in Batch :
          /\ HasStep("synthesize", g)
          /\ Failed("translate", h)
          /\ ~HasStep("synthesize", h)

\* C4: a run with a non-empty batch ends with a Translate and a Synthesize
\* result for every episode of the batch, whatever failed, and with the
\* Mark-Processed result.
C4_FallbackNeverAborts ==
    (pc = "done" /\ episodes_to_process # <<>>) =>
        /\ \A g \in Batch : HasStep("translate", g) /\ HasStep("synthesize", g)
        /\ MarkSteps # {}

\* C5: no result of execute_transcription, execute_translation or execute_tts
\* has success = false.
C5_StagesNeverReturnFailure ==
    \A k \in 1..Len(Steps) :
        Steps[k].agent \in {"transcription", "translation", "tts"} =>
            Steps[k].success

\* C6: once the feed check has reported success with a count of 0, the run
\* has returned success with episodes_processed = 0, the feed-check result is
\* the only step, no page was requested and Mark-Processed was not invoked;
\* and from the moment the check_feeds tool answered a count of 0 the run
\* only disconnects and returns that result.
C6_NoNewEpisodesEndsRun ==
    /\ (FeedChecked /\ Steps[1].success /\ Steps[1].new_episodes_count = 0) =>
          /\ pc = "done"
          /\ pipeline_results.success
          /\ pipeline_results.episodes_processed = 0
          /\ Len(Steps) = 1
          /\ pages_fetched = 0
          /\ mark_args = <<>>
    /\ (/\ check_feeds_answer = "ok"
        /\ feed_result.new_episodes_count = 0
        /\ ~(FeedChecked /\ ~Steps[1].success)) =>
          /\ pc \in {"feed_disconnect_none", "done"}
          /\ pc = "done" => (FeedChecked /\ Steps[1].success
                             /\ Steps[1].new_episodes_count = 0)
          /\ pages_fetched = 0
          /\ mark_args = <<>>

C6_Witness ==
    /\ FeedChecked
    /\ Steps[1].success
    /\ Steps[1].new_episodes_count = 0
    /\ check_feeds_answer = "ok"

\* C7: once the feed check has returned success = false, the run has returned
\* success = false with an error, the feed-check result is the only step,
\* Mark-Processed was not invoked and the dedup record is as the run found it.
C7_FeedCheckFailureEndsRun ==
    (FeedChecked /\ ~Steps[1].success) =>
        /\ pc = "done"
        /\ ~pipeline_results.success
        /\ pipeline_results.error # ""
        /\ Len(Steps) = 1
        /\ mark_args = <<>>
        /\ store = store_at_start

C7_Witness ==
    /\ FeedChecked
    /\ ~Steps[1].success
    /\ pc = "done"

\* C8: a run whose Mark-Processed result has success = false does not report
\* success = true.
C8_MarkFailurePropagates ==
    \A k \in MarkSteps : ~Steps[k].success => ~pipeline_results.success

\* C9: a feed check whose check_feeds call was refused, got no line, got a
\* line that is not JSON, or got an error or malformed payload, is returned
\* with success = false.
C9_FailedCheckIsReported ==
    (FeedChecked /\ check_feeds_answer
                       \in {"raise", "broken", "eof", "nojson", "badshape", "errpayload"}) =>
        ~Steps[1].success

\* C10: while a pipeline run is in progress at most one worker process
\* spawned by the orchestrator is alive.
C10_AtMostOneLiveWorker ==
    pc \notin {"idle", "done"} => LiveWorkers <= 1

\* C11: when execute_feed_check, execute_translation, execute_tts or
\* mark_episodes_processed has returned, the client it used holds no live
\* worker process.
C11_ConnectionsDestroyedOnReturn ==
    pc \in {"transcribe", "translation_connect", "tts_connect",
            "mark_connect", "done"} =>
        /\ feed_monitor.process # "alive"
        /\ stage_client.process # "alive"

\* C12: a run in progress is never blocked for good: whatever the worker
\* does, the run has a next step to take (an answer, or the timeout that
\* abandons the pending connect or call_tool), so it goes on to return.
C12_RunNeverBlocks ==
    pc \notin {"idle", "done"} => ENABLED Next

\* ------------------------------------------- properties of the dedup store
\* The tools that check the feed, and those whose answer lists the episodes.
CheckTools == {"check_feeds", "check_feed", "get_new_episodes"}

ListTools == {"check_feed", "get_new_episodes"}

LastChecked == last_call.tool \in CheckTools

\* The processed set the last check worked with: the guids of the record,
\* none when the record could not be read.
Processed ==
    IF last_call.read_ok THEN GuidSet(last_call.file_before) ELSE {}

RepeatsMark ==
    /\ last_call.tool = "mark_episodes_processed"
    /\ last_call'.tool = "mark_episodes_processed"
    /\ last_call'.request = last_call.request
    /\ last_call'.read_ok = last_call.read_ok
    /\ last_call'.write = last_call.write

Occurrences(s, g) == Cardinality({k \in 1..Len(s) : s[k] = g})

\* sub is s with some of its entries left out, the others in their order.
IsSubsequence(sub, s) ==
    \E f \in [1..Len(sub) -> 1..Len(s)] :
        /\ \A k \in 1..Len(sub) : sub[k] = s[f[k]]
        /\ \A j \in 1..Len(sub), k \in 1..Len(sub) : j < k => f[j] < f[k]

C16_CheckIsReadOnly ==
    [][/\ last_call'.tool \in CheckTools \cup {"get_feed_stats"} =>
             last_check_file' = last_check_file
       /\ last_check_file' # last_check_file =>
             last_call'.tool = "mark_episodes_processed"]_vars

C16_Witness ==
    /\ LastChecked
    /\ last_call.count > 0
    /\ last_check_file.kind = "json"
    /\ GuidSet(last_check_file) # {}
    /\ last_check_file = last_call.file_before

\* C17: no step takes a guid out of the record: every guid a reader found
\* in the file before the step is found in it after the step.
C17_ProcessedSetOnlyGrows ==
    [][GuidSet(last_check_file) \subseteq GuidSet(last_check_file')]_vars

\* C18: a Mark-Processed result with success = true means that every guid
\* of the batch is in the record.
C18_FailedWriteIsReported ==
    \A k \in MarkSteps : Steps[k].success => Batch \subseteq store

\* C19: after a mark whose process was killed while it wrote the record, the
\* file is a complete record (the old one or the new one), not a truncated or
\* partly written one.
C19_WriteIsAtomic ==
    (last_call.tool = "mark_episodes_processed" /\ last_call.write = "killed") =>
        last_check_file.kind # "partial"

\* The last call found no record it could read: the file is missing, is not
\* valid JSON, or could not be opened.
NoReadableRecord ==
    last_call.file_before.kind # "json" \/ ~last_call.read_ok

\* C20: a call that finds no readable record works with the empty record
\* and answers success: a check of a feed that parses reports every entry as
\* new, get_feed_stats reports no guid and a last check of 0.
C20_LoadNeverRaises ==
    /\ (LastChecked /\ NoReadableRecord) =>
          /\ last_call.status = "success"
          /\ last_call.feed_ok => last_call.count = Len(last_call.entries)
          /\ (last_call.feed_ok /\ last_call.tool \in ListTools) =>
                last_call.episodes = last_call.entries
    /\ (last_call.tool = "get_feed_stats" /\ NoReadableRecord) =>
          /\ last_call.status = "success"
          /\ last_call.count = 0
          /\ last_call.last_check = 0

C20_Witness ==
    /\ last_call.tool \in ListTools
    /\ last_call.feed_ok
    /\ ~last_call.read_ok
    /\ \E g \in Range(last_call.entries) : g \in GuidSet(last_call.file_before)
    /\ last_call.episodes = last_call.entries

\* ------------------------------------------ requests the mark tool rejects
\* C21: a mark called with an empty (or no) episodes list is answered with
\* an error and leaves the record file as it was; the Mark-Processed result
\* of a run whose batch is empty has success = false, and the record is as
\* the run found it.
C21_EmptyMarkIsRejected ==
    /\ [](\A k \in MarkSteps :
            episodes_to_process = <<>> =>
                (~Steps[k].success /\ store = store_at_start))
    /\ [][(last_call'.tool = "mark_episodes_processed"
                /\ last_call'.request = <<>>) =>
             /\ last_call'.status = "error"
             /\ last_check_file' = last_check_file]_vars

\* A run with new episodes counted, none listed, whose mark call reached a
\* live worker.
C21_Witness ==
    /\ pc = "done"
    /\ MarkSteps # {}
    /\ mark_args = <<(<<>>)>>
    /\ feed_monitor.initialized
    /\ feed_monitor.process = "alive"
    /\ store # {}

\* An episode of the request of the last call lacks a required field.
Lacking(request) ==
    \E k \in 1..Len(request) :
        request[k].guid = Absent \/ ~request[k].feed_url \/ ~request[k].feed_id

\* C22: a mark whose request holds an episode without guid, feed_url or
\* feed_id is answered with an error and leaves the record file as it was.
C22_IncompleteEpisodeIsRejected ==
    [][(last_call'.tool = "mark_episodes_processed"
            /\ Lacking(last_call'.request)) =>
         /\ last_call'.status = "error"
         /\ last_check_file' = last_check_file]_vars

\* ------------------------------------------ properties of DirectMCPClient
\* C23: connect() returns true exactly when the worker answered initialize
\* with a result, and the client is then initialized on a live worker; when
\* it returns false the client is not initialized and holds no process.
C23_ReadyOnlyAfterHandshake ==
    last_op.op = "connect" =>
        /\ last_op.ret <=> (last_op.out = "init_ok")
        /\ last_op.ret =>
              (feed_monitor.initialized /\ feed_monitor.process = "alive")
        /\ ~last_op.ret =>
              (~feed_monitor.initialized /\ feed_monitor.process = "none")

\* The client before the last operation was in the Ready state.
WasReady == last_op.state = "ready"

\* C24: a call_tool or list_tools on a client that is not Ready (never
\* connected, connect() returned false, or disconnected) raises and writes
\* no request.
C24_CallToolOnlyWhenReady ==
    (last_op.op \in {"call_tool", "list_tools"} /\ ~WasReady) =>
        (last_op.raised /\ ~last_op.sent)

\* C25: no live worker the client spawned is without a handle, and a
\* connect() on a client that holds a worker raises and leaves the client
\* as it was.
C25_NoWorkerOrphaned ==
    /\ orphans = 0
    /\ (last_op.op = "connect" /\ last_op.before.process = "alive") =>
          (last_op.raised /\ feed_monitor = last_op.before)

\* C26: a disconnect() on a client without process does nothing and raises
\* nothing; after a disconnect() the client holds no process and is not
\* initialized; a second disconnect() leaves the client as the first did.
C26_DisconnectIsIdempotent ==
    last_op.op = "disconnect" =>
        /\ last_op.before.process = "none" =>
              (~last_op.raised /\ feed_monitor = last_op.before)
        /\ feed_monitor = DirectMCPClient
        /\ \A raises \in BOOLEAN :
              disconnect(feed_monitor, raises).client = feed_monitor

\* ------------------------------------------------ properties of the summary
StageAgents == {"transcription", "translation", "tts"}

ResultsOf(agent) == SelectSeq(Steps, LAMBDA step : step.agent = agent)

\* What the summary says of an agent is what the agent's stage results are.
ReportedRight(agent) ==
    LET used == pipeline_results.summary.agents_used[agent]
        mine == ResultsOf(agent)
        simulated == {k \in 1..Len(mine) : mine[k].simulated}
    IN /\ used.simulated_count + used.real_count = Len(mine)
       /\ used.status \in {"simulated_only", "real_only", "mixed", "not_used"}
       /\ used.status = "not_used" <=> mine = <<>>
       /\ used.status = "simulated_only" <=>
             (mine # <<>> /\ Cardinality(simulated) = Len(mine))
       /\ used.status = "real_only" <=> (mine # <<>> /\ simulated = {})
       /\ used.status = "mixed" <=>
             (simulated # {} /\ Cardinality(simulated) < Len(mine))

\* A summary, where the result has one, reports each stage agent rightly.
SummaryRight ==
    pipeline_results.summary.present =>
        \A agent \in StageAgents : ReportedRight(agent)

\* C27: the result of every run that has returned carries the summary, and
\* the summary reports each of the transcription, translation and tts
\* agents as its stage results are: simulated_only, real_only, mixed or
\* not_used, the two counts adding up to the number of its results.
C27_SummaryReportsEachAgent ==
    pc = "done" =>
        /\ pipeline_results.summary.present
        /\ \A agent \in StageAgents : ReportedRight(agent)

\* C28: once close() has returned the agent map is empty and the client
\* that was in it holds no live worker process.
C28_CloseDisconnectsAllAgents ==
    agents = {} => feed_monitor.process # "alive"

\* ------------------------------------------------- order of the run's steps
\* Position in the batch of the episode with guid g.
BatchIndex(g) ==
    CHOOSE j \in 1..Len(episodes_to_process) : episodes_to_process[j] = g

\* The k-th step is the last result of its episode: a Synthesize result, or
\* a Transcribe or Translate result that failed.
LastOfEpisode(k) ==
    \/ step_of[k].stage = "synthesize"
    \/ step_of[k].stage \in {"transcribe", "translate"} /\ ~Steps[k].success

\* The k-th step is where the step before it leaves the run.
InItsPlace(k) ==
    LET this == step_of[k]
        before == step_of[k - 1]
    IN /\ this.stage # "feed_check"
       /\ this.stage = "transcribe" =>
             /\ this.guid \in Batch
             /\ IF before.stage = "feed_check"
                THEN BatchIndex(this.guid) = 1
                ELSE /\ LastOfEpisode(k - 1)
                     /\ BatchIndex(this.guid) = BatchIndex(before.guid) + 1
       /\ this.stage = "translate" =>
             /\ before = [stage |-> "transcribe", guid |-> this.guid]
             /\ Steps[k - 1].success
       /\ this.stage = "synthesize" =>
             /\ before = [stage |-> "translate", guid |-> this.guid]
             /\ Steps[k - 1].success
       /\ this.stage = "mark" =>
             /\ k = Len(step_of)
             /\ IF episodes_to_process = <<>>
                THEN before.stage = "feed_check"
                ELSE /\ LastOfEpisode(k - 1)
                     /\ BatchIndex(before.guid) = Len(episodes_to_process)

\* C30: the steps of a run are the feed-check result, then for each episode
\* of the batch, in the order the feed check returned them, its Transcribe
\* result, its Translate result if Transcribe succeeded and its Synthesize
\* result if Translate succeeded, then the Mark-Processed result; no stage
\* of an episode comes between two stages of another.
C30_EpisodesInFeedOrder ==
    /\ HistoryAligned
    /\ Len(step_of) >= 2 =>
          episodes_to_process = Take(feed_result.new_episodes, BatchSize)
    /\ \A k \in StepIndexes :
          IF k = 1 THEN step_of[k].stage = "feed_check" ELSE InItsPlace(k)

\* A completed run of two episodes, one through its three stages, the
\* other stopped at a failed Translate.
C30_Witness ==
    /\ pc = "done"
    /\ MarkSteps # {}
    /\ Len(episodes_to_process) >= 2
    /\ Succeeded("synthesize", episodes_to_process[2])
    /\ Failed("translate", episodes_to_process[1])

\* ------------------------------------------------ properties of the scheduler
\* C29: a run_full_pipeline without force starts the pipeline command only
\* when new episodes were detected (the flag file was there, or the check
\* before it counted more than 0); and a job that removed the flag file is a
\* run_full_pipeline whose pipeline command ran and succeeded.
C29_PipelineOnlyOnNewEpisodes ==
    LET last == scheduler.last
    IN /\ (last.job = "run_full_pipeline" /\ ~last.force /\ last.started) =>
             last.detected
       /\ (last.flag_before /\ ~scheduler.flag_file) =>
             (last.job = "run_full_pipeline" /\ last.pipeline = "ok")

\* The other way a read can fail: not JSON for end of stream, and back.
OtherFailure(resp) == IF resp = "eof" THEN "nojson" ELSE "eof"

\* C33: when the worker closed its stdout, and when it wrote a line that is
\* not JSON, _read_message returns a value that it does not return in the
\* other of the two cases, and so does call_tool / list_tools to its caller.
C33_EndOfStreamIsNotProtocolError ==
    (/\ last_op.op \in {"call_tool", "list_tools"}
     /\ last_op.sent
     /\ last_op.out \in {"eof", "nojson"}) =>
        /\ last_op.read # read_message(LineOf(OtherFailure(last_op.out)))
        /\ last_op.value #
               call_tool(last_op.before, OtherFailure(last_op.out)).outcome

\* ------------------------------------------------ properties of the guids
\* The first non-empty value among the entry's id and link, Empty if none.
FirstNonEmpty(entry) ==
    IF entry.id \notin {Absent, Empty} THEN entry.id
    ELSE IF entry.link \notin {Absent, Empty} THEN entry.link
    ELSE Empty

\* C35: the candidates of a checked feed are, in feed order, the entries
\* that have a non-empty id or link, each under the first non-empty of the
\* two as its guid; only an entry with neither is skipped.
C35_GuidIsFirstNonEmpty ==
    last_call.tool \in {"check_feed", "feed_utils"} =>
        last_call.entries =
            SelectSeq([k \in 1..Len(last_call.feed) |->
                          FirstNonEmpty(last_call.feed[k])],
                      LAMBDA guid : guid # Empty)

\* ------------------------------------------------ properties of the paging
\* The new episodes of the feed of the last call, against the record.
AllNew ==
    check_feed_for_new_episodes(last_call.entries, TRUE, last_check_file,
                                TRUE).new_episodes

\* C32: with N new episodes and page size p = min(per_page, 50),
\* total_pages = ceil(N / p); pages 1..k concatenated are the first k * p new
\* episodes in order, so pages 1..total_pages are exactly the N new episodes,
\* each once; a page beyond total_pages is empty.
C32_PagesCoverNewEpisodes ==
    (last_call.tool = "get_new_episodes" /\ pages_fetched >= 1) =>
        LET per_page == last_call.per_page
            total_pages == feed_result.total_pages
        IN /\ per_page = Min(last_call.per_page_arg, MaxPerPage)
           /\ feed_result.new_episodes_count = Len(AllNew)
           /\ total_pages * per_page >= Len(AllNew)
           /\ (total_pages - 1) * per_page < Len(AllNew)
           /\ Len(AllNew) = 0 => total_pages = 0
           /\ feed_result.new_episodes = Take(AllNew, pages_fetched * per_page)
           /\ pages_fetched >= total_pages => feed_result.new_episodes = AllNew
           /\ pages_fetched > total_pages => last_call.episodes = <<>>

\* Several pages, the last one shorter than the others, and one page more.
C32_Witness ==
    /\ last_call.tool = "get_new_episodes"
    /\ feed_result.total_pages >= 2
    /\ pages_fetched = feed_result.total_pages + 1
    /\ Len(AllNew) % last_call.per_page # 0
    /\ feed_result.new_episodes = AllNew

\* ------------------------------------------------ properties of the batch
\* The first page under-fills the batch and more pages are reported.
UnderFilled ==
    Len(feed_result.new_episodes) < BatchSize /\ feed_result.total_pages > 1

\* get_more_episodes was called in this run.
AskedForMore == pc = "get_more_episodes" \/ last_op.op = "call_tool"

ResultOf(stage, g) ==
    Steps[CHOOSE k \in StepIndexes :
              step_of[k].stage = stage /\ step_of[k].guid = g]

\* C37: entry k of episodes_summary describes batch episode k: its
\* transcription and translation statuses are those of that episode's
\* Transcribe and Translate results, and its tts status is success exactly
\* when that episode has a Synthesize result with success = true.
C37_BreakdownDescribesItsEpisode ==
    pipeline_results.summary.present =>
        \A k \in 1..Len(pipeline_results.summary.episodes_summary) :
            LET entry == pipeline_results.summary.episodes_summary[k]
                g == episodes_to_process[k]
            IN /\ entry.episode_number = k
               /\ entry.transcription_status =
                      (IF ResultOf("transcribe", g).simulated
                       THEN "simulated" ELSE "real")
               /\ HasStep("translate", g) =>
                      entry.translation_status =
                          (IF ResultOf("translate", g).simulated
                           THEN "simulated" ELSE "real")
               /\ (entry.tts_status = "success") <=> Succeeded("synthesize", g)

\* C38: in the summary of a completed run the feed monitor's episodes_found
\* is the count of the run's Feed-Check result and its status is that
\* result's; the Mark-Processed result does not overwrite them.
C38_FeedMonitorEntryIsTheFeedCheck ==
    pipeline_results.summary.present =>
        LET feed_monitor_used == pipeline_results.summary.agents_used.feed_monitor
        IN /\ feed_monitor_used.episodes_found = Steps[1].new_episodes_count
           /\ feed_monitor_used.status =
                  (IF Steps[1].success THEN "success" ELSE "error")

\* C40: every batch passed to mark_episodes_processed is non-empty.
C40_MarkNeverWithEmptyBatch ==
    \A k \in 1..Len(mark_args) : mark_args[k] # <<>>

\* C36: run_feed_check makes at most 3 attempts, none after one that
\* succeeded; it returns true exactly when an attempt succeeded, and false
\* only after 3 failed attempts; each call adds exactly 1 to feed_checks,
\* and nothing else changes that counter.
C36_FeedCheckRetries ==
    /\ [](scheduler.last.job = "run_feed_check" =>
            LET attempts == scheduler.last.attempts
            IN /\ Len(attempts) \in 1..Attempts
               /\ \A k \in 1..(Len(attempts) - 1) : ~attempts[k]
               /\ scheduler.last.returned <=> attempts[Len(attempts)]
               /\ ~scheduler.last.returned => Len(attempts) = Attempts)
    /\ [][scheduler'.feed_checks =
             scheduler.feed_checks
             + (IF scheduler'.last.job = "run_feed_check" THEN 1 ELSE 0)]_vars

\* A call that succeeded in its third attempt.
C36_Witness ==
    /\ scheduler.last.job = "run_feed_check"
    /\ scheduler.last.attempts = <<FALSE, FALSE, TRUE>>
    /\ scheduler.last.returned
    /\ scheduler.feed_checks = 2

====
